---- MODULE Spec2Model ----
(***************************************************************************)
(* Model of the coordination task of rust-ipfs (src/src/task.rs): the      *)
(* event loop IpfsTask::run, its handlers handle_swarm_event, handle_event *)
(* and handle_repo_event, the session registry with its destroy tasks and  *)
(* fetch workers, and the query tracker's continuation maps.               *)
(*                                                                         *)
(* One module, several specifications over the same variables:             *)
(*   SpecSession  session registry, workers, destroy tasks (small ids)     *)
(*   SpecGc       the session_cleanup tick over registries larger than the *)
(*                per-tick cap                                             *)
(*   SpecKad      DHT commands, bitswap requests, kad progress events      *)
(*   SpecLookup   peer lookups: closest-peers results and identify events  *)
(*   SpecFacade   every facade command of handle_event                     *)
(*   SpecLoop     the select loop of IpfsTask::run: inputs, Exit, startup  *)
(*                notification, startup delay                              *)
(*   SpecListen   listener commands and the listener lifecycle events      *)
(*   SpecRepo     handle_repo_event: WantBlock, NewBlock and their tasks   *)
(*   SpecPath     IpfsPath parsing and formatting (src/src/path.rs)        *)
(*   SpecProtocol the bitswap protocol versions: order, capabilities       *)
(*                (packages/beetle-bitswap-next/src/protocol.rs)           *)
(*   SpecCodec    the bitswap frame codec: encode, transfer, decode        *)
(*   SpecWorker   fetch workers from spawn to return, under the fairness   *)
(*                the runtime gives a task that is ready                   *)
(*   SpecStream   a bitswap stream from its upgrade on                     *)
(*   SpecPush     IpfsPath parsing followed by push_str                    *)
(*   SpecLookupFair  SpecLookup with an engine that finishes its queries   *)
(* Each action sets `handled` to the input it handled, so that properties  *)
(* of one handler can be stated as properties of a step.                   *)
(***************************************************************************)
EXTENDS Integers, Sequences, FiniteSets, Bags, TLC

VARIABLES
    bitswap,            \* swarm.behaviour().bitswap.is_some()
    bitswap_sessions,   \* IpfsTask.bitswap_sessions: ctx -> Seq of workers
    destroy_tasks,      \* bag of the tasks spawned by destroy_bs_session
    kad,                \* swarm.behaviour().kademlia.is_enabled()
    kad_queries,        \* the DHT engine's query pool: live QueryId -> query
    next_query,         \* QueryIds the DHT engine has handed out
    kad_subscriptions,  \* IpfsTask.kad_subscriptions (its keys)
    provider_stream,    \* IpfsTask.provider_stream (its keys)
    bitswap_provider_stream, \* IpfsTask.bitswap_provider_stream (its keys)
    record_stream,      \* IpfsTask.record_stream (its keys)
    dht_peer_lookup,    \* IpfsTask.dht_peer_lookup: peer -> Seq of responders
    chan,               \* the channel behind each streaming continuation
    forward_tasks,      \* bag of the forwarding tasks spawned per progress event
    peerbook,           \* peers whose identify info the peer book holds
    listening_addresses, \* IpfsTask.listening_addresses: address -> ListenerId
    listeners,          \* IpfsTask.listeners
    listener_subscriptions, \* IpfsTask.listener_subscriptions: id -> the command waiting
    swarm_listeners,    \* the swarm's listeners: ListenerId -> bound addresses
    next_listener,      \* ListenerIds the swarm has handed out
    bootstraps,         \* IpfsTask.bootstraps
    kad_routing,        \* addresses in the DHT engine's routing table
    from_facade,        \* commands taken from IpfsTask.from_facade so far
    inbox,              \* inputs waiting in swarm, from_facade and repo_events
    produced,           \* inputs each source has produced so far
    ticks,              \* timer ticks the loop has taken
    pc,                 \* run: "select", "sleep" (the startup delay), "done"
    cur,                \* the input the current iteration of run has read
    delay,              \* the `delay` argument of run
    first_run,          \* the local first_run of run
    notified,           \* calls of notify.notify_one()
    log,                \* the inputs run has handled, in order
    notify_tasks,       \* bag of the tasks NewBlock spawned to notify the exchange
    path,               \* a string, the IpfsPath parsed from it and its Display
    protocols,          \* a list of ProtocolId, sorted and asked for supports_have
    codec,              \* a BitswapCodec, the message given to it and its buffer
    handled             \* the input handled by the last step

sessVars == <<bitswap, bitswap_sessions, destroy_tasks>>

kadVars == <<kad, kad_queries, next_query, kad_subscriptions, provider_stream,
             bitswap_provider_stream, record_stream, dht_peer_lookup, chan,
             forward_tasks, peerbook>>

lisVars == <<listening_addresses, listeners, listener_subscriptions,
             swarm_listeners, next_listener>>

bootVars == <<bootstraps, kad_routing>>

loopVars == <<inbox, produced, ticks, pc, cur, delay, first_run, notified, log>>

repoVars == <<notify_tasks>>
pathVars == <<path>>
protoVars == <<protocols, codec>>

nonSessVars == <<kadVars, lisVars, bootVars, from_facade, loopVars, repoVars, pathVars, protoVars>>
nonKadVars == <<sessVars, lisVars, bootVars, loopVars, repoVars, pathVars, protoVars>>
nonLisVars == <<sessVars, kadVars, bootVars, loopVars, repoVars, pathVars, protoVars>>

vars == <<sessVars, kadVars, lisVars, bootVars, from_facade, loopVars, handled>>

\* ------------------------------------------------------------------ bounds

\* Session ids of WantBlock in SpecSession: 0..MaxSession
MaxSession == 1
\* Workers alive at a time (registered, or held by a destroy task)
MaxWorkers == 2
\* Destroy tasks in flight above which no further destroy is started
MaxDestroyTasks == 1
\* Sessions beyond the per-tick cap in the registries SpecGc starts from
GcExtra == 1

\* QueryIds the DHT engine hands out in one run
MaxQueries == 2
\* Peer ids: 1..MaxPeer
MaxPeer == 2
\* Responders pending for one peer in dht_peer_lookup
MaxLookups == 2
\* Items sent, or about to be sent, on one streaming continuation
MaxItems == 2
\* Addresses: 1..MaxAddr
MaxAddr == 2
\* ListenerIds the swarm hands out in one run
MaxListeners == 2
\* Commands the facade sends in one run
MaxCommands == 3
\* inputs the three sources of run produce in one run
MaxInputs == 3
\* timer ticks run takes in one run
MaxTicks == 2
\* notification tasks of NewBlock alive at once
MaxNotifyTasks == 2
\* '/'-separated pieces of a path string
MaxPieces == 5
\* length of a list of protocol versions
MaxProtocols == 4
\* the small max_transmit_size of a ProtocolConfig, in bytes
MaxLen == 6
\* blocks in one message
MaxBlocks == 2
MaxPush == 3
\* const MAX_BUF_SIZE: usize = 1024 * 1024 * 2 (protocol.rs:16)
MAX_BUF_SIZE == 2097152

\* to_remove.len() >= 10 (task.rs:138)
GcCap == 10

\* ------------------------------------------------------------------ helpers

Min(a, b) == IF a < b THEN a ELSE b
Max(a, b) == IF a > b THEN a ELSE b

RECURSIVE SumOver(_, _)
\* the sum of val[x] over the elements x of S
SumOver(S, val) ==
    IF S = {} THEN 0
    ELSE LET x == CHOOSE y \in S : TRUE
         IN val[x] + SumOver(S \ {x}, val)

RECURSIVE SetToSeq(_)
\* the elements of a finite set of integers, ascending
SetToSeq(S) ==
    IF S = {} THEN <<>>
    ELSE LET m == CHOOSE x \in S : \A y \in S : x <= y
         IN <<m>> \o SetToSeq(S \ {m})

RECURSIVE KSubsets(_, _)
\* the subsets of S (integers) with k elements
KSubsets(S, k) ==
    IF k = 0 THEN {{}}
    ELSE UNION {{T \cup {x} : T \in KSubsets({y \in S : y > x}, k - 1)} : x \in S}

\* Option<T> as a set with at most one element
None == {}
Some(x) == {x}
\* an unwrap_or whose default is the newest session id
UnwrapOrNewest(o, d) == IF o = {} THEN MaxSession ELSE CHOOSE x \in o : TRUE
UnwrapOr(o, d) == IF o = {} THEN d ELSE CHOOSE x \in o : TRUE

BagAdd(b, e) == b (+) SetToBag({e})
BagRemove(b, e) == b (-) SetToBag({e})
BagReplace(b, e, f) == BagAdd(BagRemove(b, e), f)

\* ------------------------------------------------------------------ workers

\* A worker is the pair (closer_s, JoinHandle) of task.rs:1246-1273 together
\* with the state of the spawned task it points to:
\*   st      "running"  inside the select!, closer_r alive
\*           "storing"  the fetch won the select!, closer_r dropped,
\*                      repo.put_block awaited
\*           "finished" the task returned (JoinHandle::is_finished)
\*   cancel  closer_s.send(()) delivered and not yet seen by the select!
\*   won     the branch of the select! that completed: "none" while the task
\*           is inside the select!, "closer" for closer_r, "Ok" and "Err" for
\*           the fetch with its result
\*   put_block  calls of repo.put_block made by the task
NewWorker == [st |-> "running", cancel |-> FALSE, won |-> "none", put_block |-> 0]

\* JoinHandle::is_finished
is_finished(w) == w.st = "finished"

\* a worker task that stores a block whichever branch of the select! completed
WorkerNext_PutAlways(w) ==
    CASE w.st = "running" ->
            {[w EXCEPT !.st = "storing", !.cancel = FALSE, !.won = "Ok",
                       !.put_block = @ + 1],
             [w EXCEPT !.st = "storing", !.cancel = FALSE, !.won = "Err",
                       !.put_block = @ + 1]}
            \cup (IF w.cancel
                  THEN {[w EXCEPT !.st = "storing", !.cancel = FALSE,
                                  !.won = "closer", !.put_block = @ + 1]}
                  ELSE {})
      [] w.st = "storing" -> {[w EXCEPT !.st = "finished"]}
      [] OTHER -> {}

\* the steps of one worker task (the select! of task.rs:1252-1271)
WorkerNext(w) ==
    CASE w.st = "running" ->
            \* get_block_with_session_id returned Ok: the select! ends,
            \* closer_r is dropped, put_block is awaited
            {[w EXCEPT !.st = "storing", !.cancel = FALSE, !.won = "Ok",
                       !.put_block = @ + 1],
            \* get_block_with_session_id returned Err
             [w EXCEPT !.st = "finished", !.cancel = FALSE, !.won = "Err"]}
            \* closer_r resolved
            \cup (IF w.cancel
                  THEN {[w EXCEPT !.st = "finished", !.cancel = FALSE,
                                  !.won = "closer"]}
                  ELSE {})
      [] w.st = "storing" -> {[w EXCEPT !.st = "finished"]}
      [] OTHER -> {}

\* Retain with the retain left out: finished workers stay registered
RetainAll(tasks) == tasks

\* Retain with the predicate inverted: the finished workers are the ones kept
RetainFinished(tasks) == SelectSeq(tasks, LAMBDA w : is_finished(w))

\* tasks.retain(|(_, task)| !task.is_finished())  (task.rs:130)
Retain(tasks) == SelectSeq(tasks, LAMBDA w : ~is_finished(w))

\* ------------------------------------------------------------------ destroy

\* The task spawned by destroy_bs_session (task.rs:161-180).
\*   ctx       the session id
\*   n         workers.len() when the task was spawned (0 for None)
\*   workers   the workers not yet left behind by the loop of task.rs:166
\*   pc        "cancel"  at the head of the loop
\*             "await"   in worker.await for the head of workers
\*             "end"     returned
\*   sent      calls of closer.send(())
\*   accepted  calls of closer.send(()) that returned Ok
\*   awaited   completed worker.await
\*   stops     calls of client.stop_session(ctx)
NewDestroyTask(ctx, workers) ==
    [ctx |-> ctx, n |-> Len(workers), workers |-> workers, pc |-> "cancel",
     sent |-> 0, accepted |-> 0, awaited |-> 0, stops |-> 0]

\* SessionsRemove reading the entry with get instead of remove
SessionsKeep(sessions, ctx) == sessions

\* self.bitswap_sessions.remove(&ctx) (task.rs:160): the registry afterwards
SessionsRemove(sessions, ctx) ==
    [c \in DOMAIN sessions \ {ctx} |-> sessions[c]]

\* destroy_bs_session (task.rs:156-182) applied to the pair <<registry, tasks>>.
\* workers = None and workers = Some(vec![]) differ in the log lines only.
destroy_bs_session(st, ctx) ==
    IF bitswap
    THEN LET sessions == st[1]
             workers == IF ctx \in DOMAIN sessions THEN sessions[ctx] ELSE <<>>
         IN <<SessionsRemove(sessions, ctx),
              BagAdd(st[2], NewDestroyTask(ctx, workers))>>
    ELSE st

RECURSIVE DestroyAll(_, _)
\* for id in to_remove { self.destroy_bs_session(id, tx) }  (task.rs:143-146)
DestroyAll(st, to_remove) ==
    IF to_remove = <<>> THEN st
    ELSE DestroyAll(destroy_bs_session(st, Head(to_remove)), Tail(to_remove))

\* DestroyTaskNext without the worker.await: the loop goes on to the next
\* worker as soon as the cancel was accepted
DestroyTaskNoAwait(t) ==
    CASE t.pc = "cancel" /\ t.workers # <<>> ->
            LET w == Head(t.workers)
            IN IF w.st = "running"
               THEN {[t EXCEPT !.workers = Tail(t.workers),
                               !.sent = t.sent + 1,
                               !.accepted = t.accepted + 1]}
               ELSE {[t EXCEPT !.workers = Tail(t.workers),
                               !.sent = t.sent + 1]}
      [] t.pc = "cancel" /\ t.workers = <<>> ->
            {[t EXCEPT !.pc = "end", !.stops = t.stops + 1]}
      [] OTHER -> {}

\* One step of a destroy task (task.rs:162-179): the set of its successors.
DestroyTaskNext(t) ==
    CASE t.pc = "cancel" /\ t.workers # <<>> ->
            LET w == Head(t.workers)
            IN IF w.st = "running"
               \* closer.send(()).is_ok(): the task goes on to worker.await
               THEN {[t EXCEPT !.workers = <<[w EXCEPT !.cancel = TRUE]>> \o Tail(t.workers),
                               !.sent = t.sent + 1,
                               !.accepted = t.accepted + 1,
                               !.pc = "await"]}
               \* the receiver is gone: the worker is not awaited
               ELSE {[t EXCEPT !.workers = Tail(t.workers),
                               !.sent = t.sent + 1]}
      [] t.pc = "await" /\ is_finished(Head(t.workers)) ->
            {[t EXCEPT !.workers = Tail(t.workers),
                       !.awaited = t.awaited + 1,
                       !.pc = "cancel"]}
      [] t.pc = "cancel" /\ t.workers = <<>> ->
            \* client.stop_session(ctx).await; ret.send(Ok(())); return
            {[t EXCEPT !.pc = "end", !.stops = t.stops + 1]}
      [] OTHER -> {}

\* ------------------------------------------------------------------ GC tick

RECURSIVE SweepLoopLateBreak(_, _, _)
\* SweepLoop with the break at to_remove.len() > 10
SweepLoopLateBreak(order, sessions, to_remove) ==
    IF order = <<>> THEN <<sessions, to_remove>>
    ELSE LET id == Head(order)
             tasks == Retain(sessions[id])
             pruned == [sessions EXCEPT ![id] = tasks]
             pushed == IF tasks = <<>> THEN Append(to_remove, id) ELSE to_remove
         IN IF Len(pushed) > GcCap
            THEN <<pruned, pushed>>
            ELSE SweepLoopLateBreak(Tail(order), pruned, pushed)

RECURSIVE SweepLoop(_, _, _)
\* The loop of task.rs:129-141 over the sessions in iteration order `order`:
\* <<registry after the retains, to_remove>>
SweepLoop(order, sessions, to_remove) ==
    IF order = <<>> THEN <<sessions, to_remove>>
    ELSE LET id == Head(order)
             tasks == Retain(sessions[id])
             pruned == [sessions EXCEPT ![id] = tasks]
             pushed == IF tasks = <<>> THEN Append(to_remove, id) ELSE to_remove
         IN IF Len(pushed) >= GcCap
            THEN <<pruned, pushed>>
            ELSE SweepLoop(Tail(order), pruned, pushed)

\* Iteration orders of the HashMap. The loop's outcome depends on the order
\* only through the set N of sessions that keep a worker and the set R of
\* sessions that become empty which are visited before the loop ends, so one
\* order per pair (N, R) is enough: N first, then R, then the rest.
SweepOrders(sessions) ==
    LET ids == DOMAIN sessions
        E == {id \in ids : Retain(sessions[id]) = <<>>}
        k == Min(Cardinality(E), GcCap)
    IN {SetToSeq(N) \o SetToSeq(R) \o SetToSeq(ids \ (N \cup R)) :
            N \in SUBSET (ids \ E), R \in KSubsets(E, k)}

\* the session_cleanup arm of run (task.rs:127-147)
SessionCleanup ==
    /\ BagCardinality(destroy_tasks) < MaxDestroyTasks
    /\ \E order \in SweepOrders(bitswap_sessions) :
        LET swept == SweepLoop(order, bitswap_sessions, <<>>)
            st == DestroyAll(<<swept[1], destroy_tasks>>, swept[2])
        IN /\ bitswap_sessions' = st[1]
           /\ destroy_tasks' = st[2]
           /\ handled' = [src |-> "timer", ev |-> "session_cleanup",
                          to_remove |-> {swept[2][i] : i \in 1..Len(swept[2])}]
    /\ UNCHANGED <<bitswap, nonSessVars>>

\* a direct call of destroy_bs_session(ctx, ret) (task.rs:156)
DestroySession(ctx) ==
    /\ BagCardinality(destroy_tasks) < MaxDestroyTasks
    /\ LET st == destroy_bs_session(<<bitswap_sessions, destroy_tasks>>, ctx)
       IN /\ bitswap_sessions' = st[1]
          /\ destroy_tasks' = st[2]
    /\ handled' = [src |-> "call", ev |-> "destroy_bs_session", ctx |-> ctx]
    /\ UNCHANGED <<bitswap, nonSessVars>>

\* ------------------------------------------------------------------ repo

\* the workers the model holds: registered ones and those a destroy task holds
WorkersAlive ==
    SumOver(DOMAIN bitswap_sessions,
            [c \in DOMAIN bitswap_sessions |-> Len(bitswap_sessions[c])])
    + SumOver(BagToSet(destroy_tasks),
              [t \in BagToSet(destroy_tasks) |-> destroy_tasks[t] * Len(t.workers)])

\* RepoEvent::WantBlock(session, cid, peers) (task.rs:1242-1275)
WantBlock(session) ==
    LET ctx == UnwrapOr(session, 0)
        entry == IF ctx \in DOMAIN bitswap_sessions THEN bitswap_sessions[ctx]
                 ELSE <<>>
    IN /\ WorkersAlive < MaxWorkers
       /\ IF bitswap
          THEN bitswap_sessions' =
                 [c \in DOMAIN bitswap_sessions \cup {ctx} |->
                    IF c = ctx THEN Append(entry, NewWorker)
                    ELSE bitswap_sessions[c]]
          ELSE UNCHANGED bitswap_sessions
       /\ handled' = [src |-> "repo", ev |-> "WantBlock", session |-> session,
                      ctx |-> ctx]
       /\ UNCHANGED <<bitswap, destroy_tasks, nonSessVars>>

\* the task NewBlock spawns (task.rs:1281-1294): it awaits
\* client.notify_new_blocks, then server.notify_new_blocks when the exchange
\* has a server
NewNotifyTask(server) == [pc |-> "client", server |-> server]

\* a NewBlock that answers only when it spawned no notification
NewBlock_ReplyUnlessSpawned(server) ==
    /\ BagCardinality(notify_tasks) < MaxNotifyTasks
    /\ notify_tasks' = IF bitswap THEN BagAdd(notify_tasks, NewNotifyTask(server))
                       ELSE notify_tasks
    /\ handled' = [src |-> "repo", ev |-> "NewBlock",
                   ret |-> IF bitswap THEN 0 ELSE 1,
                   reply |-> "Err(not actively providing blocks yet)"]
    /\ UNCHANGED <<sessVars, kadVars, lisVars, bootVars, from_facade, loopVars,
                   pathVars, protoVars>>

\* RepoEvent::NewBlock(block, ret) (task.rs:1277-1297); `server` says whether
\* bitswap.server() is Some
NewBlock(server) ==
    /\ BagCardinality(notify_tasks) < MaxNotifyTasks
    /\ notify_tasks' = IF bitswap THEN BagAdd(notify_tasks, NewNotifyTask(server))
                       ELSE notify_tasks
    /\ handled' = [src |-> "repo", ev |-> "NewBlock", ret |-> 1,
                   reply |-> "Err(not actively providing blocks yet)"]
    /\ UNCHANGED <<sessVars, kadVars, lisVars, bootVars, from_facade, loopVars,
                   pathVars, protoVars>>

\* one await of a notification task is over, with Ok or with an Err that is
\* only logged (task.rs:1286-1293)
NotifyTaskStep(t, ok) ==
    /\ t \in BagToSet(notify_tasks)
    /\ notify_tasks' = IF t.pc = "client" /\ t.server
                       THEN BagReplace(notify_tasks, t, [t EXCEPT !.pc = "server"])
                       ELSE BagRemove(notify_tasks, t)
    /\ handled' = [src |-> "task", ev |-> "notify_new_blocks", ret |-> 0,
                   at |-> t.pc, ok |-> ok]
    /\ UNCHANGED <<sessVars, kadVars, lisVars, bootVars, from_facade, loopVars,
                   pathVars, protoVars>>

\* ------------------------------------------------------------------ tasks

\* a step of the worker at position i of session ctx
WorkerStep(ctx, i) ==
    /\ ctx \in DOMAIN bitswap_sessions
    /\ i \in 1..Len(bitswap_sessions[ctx])
    /\ \E w \in WorkerNext(bitswap_sessions[ctx][i]) :
          bitswap_sessions' = [bitswap_sessions EXCEPT ![ctx][i] = w]
    /\ handled' = [src |-> "task", ev |-> "worker", ctx |-> ctx]
    /\ UNCHANGED <<bitswap, destroy_tasks, nonSessVars>>

\* a step of a worker whose handle a destroy task holds
HeldWorkerStep(t, i) ==
    /\ BagIn(t, destroy_tasks)
    /\ i \in 1..Len(t.workers)
    /\ \E w \in WorkerNext(t.workers[i]) :
          destroy_tasks' = BagReplace(destroy_tasks, t, [t EXCEPT !.workers[i] = w])
    /\ handled' = [src |-> "task", ev |-> "worker", ctx |-> t.ctx]
    /\ UNCHANGED <<bitswap, bitswap_sessions, nonSessVars>>

\* a step of a destroy task
DestroyTaskStep(t) ==
    /\ BagIn(t, destroy_tasks)
    /\ \E n \in DestroyTaskNext(t) :
          /\ destroy_tasks' = IF n.pc = "end" THEN BagRemove(destroy_tasks, t)
                              ELSE BagReplace(destroy_tasks, t, n)
          /\ handled' = [src |-> "task", ev |-> "destroy", ctx |-> t.ctx,
                         prev |-> t, task |-> n]
    /\ UNCHANGED <<bitswap, bitswap_sessions, nonSessVars>>

\* ------------------------------------------------------------------ DHT engine

Peers == 1..MaxPeer

\* the sequences that list each element of the set S of integers once
RECURSIVE Orders(_)
Orders(S) ==
    IF S = {} THEN {<<>>}
    ELSE UNION {{<<x>> \o o : o \in Orders(S \ {x})} : x \in S}

\* kad.query(&id).is_some()
query_live(queries, id) == id \in DOMAIN queries

\* The engine hands out a QueryId it has not handed out before.
FreshQuery == next_query + 1

\* the pool after the engine has started query `id` of the given kind and key
QueryAdd(queries, id, kind, key) ==
    [q \in DOMAIN queries \cup {id} |->
        IF q = id THEN [kind |-> kind, key |-> key] ELSE queries[q]]

QueryRemove(queries, id) == [q \in DOMAIN queries \ {id} |-> queries[q]]

Result(variant, final, key, peers, order) ==
    [variant |-> variant, final |-> final, key |-> key, peers |-> peers,
     order |-> order]

\* The progress events the engine can report for a live query: a result
\* variant, whether it is the query's last step, and the variant's payload.
\* `order` is the order in which the handler iterates the provider set.
KadResults(query) ==
    CASE query.kind = "Bootstrap" ->
            {Result("BootstrapOk", f, 0, {}, <<>>) : f \in BOOLEAN}
            \cup {Result("BootstrapTimeout", TRUE, 0, {}, <<>>)}
      [] query.kind = "GetClosestPeers" ->
            {Result("GetClosestPeersOk", TRUE, query.key, P, <<>>) : P \in SUBSET Peers}
            \cup {Result("GetClosestPeersTimeout", TRUE, query.key, {}, <<>>)}
      [] query.kind = "GetProviders" ->
            UNION {{Result("FoundProviders", FALSE, 0, P, o) : o \in Orders(P)} :
                        P \in SUBSET Peers}
            \cup {Result("GetProvidersFinished", TRUE, 0, {}, <<>>),
                  Result("GetProvidersTimeout", TRUE, 0, {}, <<>>)}
      [] query.kind = "GetRecord" ->
            {Result("FoundRecord", FALSE, 0, {}, <<>>),
             Result("GetRecordFinished", TRUE, 0, {}, <<>>),
             Result("GetRecordNotFound", TRUE, 0, {}, <<>>),
             Result("GetRecordQuorumFailed", TRUE, 0, {}, <<>>),
             Result("GetRecordTimeout", TRUE, 0, {}, <<>>)}
      [] query.kind = "StartProviding" ->
            {Result("StartProvidingOk", TRUE, 0, {}, <<>>),
             Result("StartProvidingTimeout", TRUE, 0, {}, <<>>)}
      [] query.kind = "PutRecord" ->
            {Result("PutRecordOk", TRUE, 0, {}, <<>>),
             Result("PutRecordQuorumFailed", TRUE, 0, {}, <<>>),
             Result("PutRecordTimeout", TRUE, 0, {}, <<>>)}
      [] OTHER -> {}

\* ------------------------------------------------------------------ query tracker

\* The coordinator state the kad and identify handlers work on, as one
\* record, with the sends the handler made (`sent`) and the responders it
\* dropped without a send (`dropped`).
Tracker ==
    [subs |-> kad_subscriptions, prov |-> provider_stream,
     bsprov |-> bitswap_provider_stream, rec |-> record_stream,
     lookup |-> dht_peer_lookup, chan |-> chan, fwd |-> forward_tasks,
     sent |-> <<>>, dropped |-> <<>>]

Send(to, key, pos, val) == [to |-> to, key |-> key, pos |-> pos, val |-> val]

MapRemove(m, k) == [x \in DOMAIN m \ {k} |-> m[x]]
MapInsert(m, k, v) == [x \in DOMAIN m \cup {k} |-> IF x = k THEN v ELSE m[x]]

\* if let Some(ret) = self.kad_subscriptions.remove(&id) { ret.send(val) }
resolve_subscription(S, id, val) ==
    IF id \in S.subs
    THEN [S EXCEPT !.subs = @ \ {id},
                   !.sent = Append(@, Send("kad_subscriptions", id, 0, val))]
    ELSE S

\* if let Some(tx) = self.provider_stream.remove(&id) { tx.close_channel() }
close_provider_stream(S, id) ==
    IF id \in S.prov
    THEN [S EXCEPT !.prov = @ \ {id}, !.chan[id].closed = TRUE]
    ELSE S

\* if let Some(tx) = self.bitswap_provider_stream.remove(&id) { drop(tx) }
drop_bitswap_provider_stream(S, id) ==
    IF id \in S.bsprov
    THEN [S EXCEPT !.bsprov = @ \ {id}, !.chan[id].closed = TRUE]
    ELSE S

\* if let Some(tx) = self.record_stream.remove(&id) { tx.close_channel() }
close_record_stream(S, id) ==
    IF id \in S.rec
    THEN [S EXCEPT !.rec = @ \ {id}, !.chan[id].closed = TRUE]
    ELSE S

\* items sent, or held by a forwarding task, on the channel of query id
ItemsIn(S, id) ==
    LET T == {t \in BagToSet(S.fwd) : t.id = id}
    IN Len(S.chan[id].buf) + SumOver(T, [t \in T |-> S.fwd[t] * Len(t.items)])

\* tokio::spawn of a task that sends `items` on a clone of the sender of id;
\* `at` is the number of items the DHT had emitted for id before these
spawn_forward(S, id, items) ==
    [S EXCEPT !.fwd = BagAdd(@, [id |-> id, items |-> items, at |-> ItemsIn(S, id)])]

\* send_all walking the list from its end
send_all_reversed(S, peer, rets, val) ==
    [S EXCEPT !.sent = @ \o [i \in 1..Len(rets) |->
                                Send("dht_peer_lookup", peer, rets[Len(rets) + 1 - i], val)]]

\* for ret in rets { ret.send(val) }
send_all(S, peer, rets, val) ==
    [S EXCEPT !.sent = @ \o [i \in 1..Len(rets) |->
                                Send("dht_peer_lookup", peer, rets[i], val)]]

\* rets goes out of scope with no send
drop_all(S, peer, rets) ==
    [S EXCEPT !.dropped = @ \o [i \in 1..Len(rets) |->
                                Send("dht_peer_lookup", peer, rets[i], "dropped")]]

\* progress_complete without the kad.query(&id).is_none() test
progress_complete_unchecked(S, id, result, live) ==
    CASE result.variant \in {"GetClosestPeersOk", "GetClosestPeersTimeout",
                             "FoundProviders", "GetProvidersFinished",
                             "GetProvidersTimeout", "FoundRecord",
                             "GetRecordFinished", "GetRecordNotFound",
                             "GetRecordQuorumFailed", "GetRecordTimeout"} -> S
      [] result.variant \in {"BootstrapTimeout", "StartProvidingTimeout",
                             "PutRecordQuorumFailed", "PutRecordTimeout"} -> S
      [] OTHER -> resolve_subscription(S, id, "Complete")

\* The first match of OutboundQueryProgressed (task.rs:261-281)
progress_complete(S, id, result, live) ==
    IF ~live
    THEN CASE result.variant \in {"GetClosestPeersOk", "GetClosestPeersTimeout",
                                  "FoundProviders", "GetProvidersFinished",
                                  "GetProvidersTimeout", "FoundRecord",
                                  "GetRecordFinished", "GetRecordNotFound",
                                  "GetRecordQuorumFailed", "GetRecordTimeout"} -> S
           [] result.variant \in {"BootstrapTimeout", "StartProvidingTimeout",
                                  "PutRecordQuorumFailed", "PutRecordTimeout"} -> S
           [] OTHER -> resolve_subscription(S, id, "Complete")
    ELSE S

\* Bootstrap(Err(Timeout)), StartProviding(Err(Timeout)), PutRecord(Err(_)),
\* GetProviders(Err(Timeout)) (task.rs:293-310, 407-446, 540-594)
on_oneshot_error(S, id, live, val) ==
    IF ~live THEN resolve_subscription(S, id, val) ELSE S

\* GetClosestPeers(Ok(GetClosestPeersOk { key, peers })) (task.rs:311-335)
on_closest_peers_ok(S, id, live, key, peers) ==
    IF ~live
    THEN LET S1 == resolve_subscription(S, id, "Peers")
         IN IF key \in DOMAIN S1.lookup
            THEN LET rets == S1.lookup[key]
                     S2 == [S1 EXCEPT !.lookup = MapRemove(@, key)]
                 IN IF key \notin peers
                    THEN send_all(S2, key, rets, "CouldNotLocatePeer")
                    ELSE drop_all(S2, key, rets)
            ELSE S1
    ELSE S

\* GetClosestPeers(Err(Timeout { key, .. })) (task.rs:336-366)
on_closest_peers_timeout(S, id, live, key) ==
    IF ~live
    THEN LET S1 == resolve_subscription(S, id, "ClosestPeersTimeout")
         IN IF key \in DOMAIN S1.lookup
            THEN send_all([S1 EXCEPT !.lookup = MapRemove(@, key)], key,
                          S1.lookup[key], "ClosestPeersTimeout")
            ELSE S1
    ELSE S

\* GetProviders(Ok(FoundProviders { providers, .. })) (task.rs:367-394)
on_found_providers(S, id, providers, order) ==
    LET S1 == IF providers # {} /\ id \in S.bsprov
              THEN spawn_forward(S, id, <<providers>>)
              ELSE S
    IN IF id \in S1.prov /\ providers # {}
       THEN spawn_forward(S1, id, order)
       ELSE S1

\* GetProviders(Ok(FinishedWithNoAdditionalRecord { .. })) (task.rs:395-406)
on_providers_finished(S, id, last) ==
    IF last
    THEN drop_bitswap_provider_stream(close_provider_stream(S, id), id)
    ELSE S

\* GetRecord(Ok(FoundRecord(record))) (task.rs:455-464)
on_found_record(S, id, record) ==
    IF id \in S.rec THEN spawn_forward(S, id, <<record>>) ELSE S

\* GetRecord(Ok(FinishedWithNoAdditionalRecord { .. })) (task.rs:465-473)
on_record_finished(S, id, last) ==
    IF last THEN close_record_stream(S, id) ELSE S

\* GetRecord(Err(NotFound | QuorumFailed | Timeout)) (task.rs:474-534)
on_record_error(S, id, live) ==
    IF ~live THEN close_record_stream(S, id) ELSE S

\* The second match of OutboundQueryProgressed (task.rs:283-603)
progress_result(S, id, result, last, live) ==
    CASE result.variant = "BootstrapTimeout" ->
            on_oneshot_error(S, id, live, "BootstrapTimeout")
      [] result.variant = "GetClosestPeersOk" ->
            on_closest_peers_ok(S, id, live, result.key, result.peers)
      [] result.variant = "GetClosestPeersTimeout" ->
            on_closest_peers_timeout(S, id, live, result.key)
      [] result.variant = "FoundProviders" ->
            on_found_providers(S, id, result.peers, result.order)
      [] result.variant = "GetProvidersFinished" ->
            on_providers_finished(S, id, last)
      [] result.variant = "GetProvidersTimeout" ->
            on_oneshot_error(S, id, live, "ProviderTimeout")
      [] result.variant = "StartProvidingTimeout" ->
            on_oneshot_error(S, id, live, "ProvideTimeout")
      [] result.variant = "FoundRecord" ->
            on_found_record(S, id, 1)
      [] result.variant = "GetRecordFinished" ->
            on_record_finished(S, id, last)
      [] result.variant \in {"GetRecordNotFound", "GetRecordQuorumFailed",
                             "GetRecordTimeout"} ->
            on_record_error(S, id, live)
      [] result.variant = "PutRecordQuorumFailed" ->
            on_oneshot_error(S, id, live, "QuorumFailure")
      [] result.variant = "PutRecordTimeout" ->
            on_oneshot_error(S, id, live, "PutTimeout")
      \* Bootstrap(Ok), StartProviding(Ok), PutRecord(Ok): logged
      [] OTHER -> S

\* the assignments every tracker action makes from the handler's result
SetTracker(S) ==
    /\ kad_subscriptions' = S.subs
    /\ provider_stream' = S.prov
    /\ bitswap_provider_stream' = S.bsprov
    /\ record_stream' = S.rec
    /\ dht_peer_lookup' = S.lookup
    /\ chan' = S.chan
    /\ forward_tasks' = S.fwd

\* items sent, or held by a forwarding task, on the channel of query id
ItemsOn(id) ==
    LET T == {t \in BagToSet(forward_tasks) : t.id = id}
    IN Len(chan[id].buf) + SumOver(T, [t \in T |-> forward_tasks[t] * Len(t.items)])

\* SwarmEvent::Behaviour(Kad(OutboundQueryProgressed { result, id, step }))
\* (task.rs:256-604): the engine reports `result` for its live query `id`;
\* a last step takes the query out of the pool before the event is seen.
OutboundQueryProgressed(id, result) ==
    /\ kad
    /\ id \in DOMAIN kad_queries
    /\ result \in KadResults(kad_queries[id])
    /\ result.variant \in {"FoundProviders", "FoundRecord"} =>
          /\ id \in DOMAIN chan
          /\ ItemsOn(id) + Max(1, Cardinality(result.peers)) <= MaxItems
    /\ LET queries == IF result.final THEN QueryRemove(kad_queries, id)
                      ELSE kad_queries
           live == query_live(queries, id)
           last == result.final
           S == progress_result(progress_complete(Tracker, id, result, live),
                                id, result, last, live)
       IN /\ kad_queries' = queries
          /\ SetTracker(S)
          /\ handled' = [src |-> "swarm", ev |-> "OutboundQueryProgressed",
                         id |-> id, variant |-> result.variant,
                         key |-> result.key, found |-> result.key \in result.peers,
                         last |-> last, live |-> live,
                         reported |-> IF result.variant = "FoundProviders"
                                      THEN result.peers ELSE {},
                         sent |-> S.sent, dropped |-> S.dropped]
    /\ UNCHANGED <<from_facade, kad, next_query, peerbook, nonKadVars>>

\* A step of a forwarding task (task.rs:377-379, 384-391, 457-462): it sends
\* its next item; a send on a closed channel fails and the item is lost.
ForwardStep(t) ==
    /\ BagIn(t, forward_tasks)
    /\ LET item == Head(t.items)
           rest == [t EXCEPT !.items = Tail(t.items)]
       IN /\ chan' = IF chan[t.id].kind # "bitswap" /\ chan[t.id].closed
                     THEN chan
                     ELSE [chan EXCEPT ![t.id].buf = Append(@, item)]
          /\ forward_tasks' = IF rest.items = <<>> THEN BagRemove(forward_tasks, t)
                              ELSE BagReplace(forward_tasks, t, rest)
    /\ handled' = [src |-> "task", ev |-> "forward", id |-> t.id, at |-> t.at]
    /\ UNCHANGED <<from_facade, kad, kad_queries, next_query, kad_subscriptions,
                   provider_stream, bitswap_provider_stream, record_stream,
                   dht_peer_lookup, peerbook, nonKadVars>>

\* IdentifyReceived that reads the entry with get: the entry stays
IdentifyReceived_Keep(peer) ==
    /\ LET S == IF peer \in DOMAIN dht_peer_lookup
                THEN send_all(Tracker, peer, dht_peer_lookup[peer], "Info")
                ELSE Tracker
       IN /\ SetTracker(S)
          /\ handled' = [src |-> "swarm", ev |-> "IdentifyReceived", peer |-> peer,
                         sent |-> S.sent, dropped |-> S.dropped]
    /\ peerbook' = peerbook \cup {peer}
    /\ UNCHANGED <<from_facade, kad, kad_queries, next_query, nonKadVars>>

\* IdentifyEvent::Received { peer_id, info } (task.rs:684-728)
IdentifyReceived(peer) ==
    /\ LET S == IF peer \in DOMAIN dht_peer_lookup
                THEN send_all([Tracker EXCEPT !.lookup = MapRemove(@, peer)],
                              peer, dht_peer_lookup[peer], "Info")
                ELSE Tracker
       IN /\ SetTracker(S)
          /\ handled' = [src |-> "swarm", ev |-> "IdentifyReceived", peer |-> peer,
                         sent |-> S.sent, dropped |-> S.dropped]
    /\ peerbook' = peerbook \cup {peer}
    /\ UNCHANGED <<from_facade, kad, kad_queries, next_query, nonKadVars>>

\* ------------------------------------------------------------------ facade: DHT

\* the engine starts a query and hands out its QueryId
Issue(kind, key) ==
    /\ kad_queries' = QueryAdd(kad_queries, FreshQuery, kind, key)
    /\ next_query' = FreshQuery

NoIssue == UNCHANGED <<kad_queries, next_query>>

\* the streaming channel created for query id
NewChan(kind) == [kind |-> kind, closed |-> FALSE, buf |-> <<>>]

\* what a facade handler reports: the sends on the command's responder `ret`,
\* what was sent, and the sends on the one-shot the reply carries
Facade(ev, ret, reply, inner) ==
    [src |-> "facade", ev |-> ev, ret |-> ret, reply |-> reply, inner |-> inner]

\* Some(event) = self.from_facade.next() => self.handle_event(event)
\* (task.rs:112-120): the loop took one more command and its arm answered
Respond(ev, ret, reply, inner) ==
    /\ from_facade < MaxCommands
    /\ from_facade' = from_facade + 1
    /\ handled' = Facade(ev, ret, reply, inner)

\* IssueOneShot whose Some(Err(e)) arm logs the error and returns
IssueOneShot_SilentErr(ev, kind, ok) ==
    /\ kad => next_query < MaxQueries
    /\ IF kad /\ ok
       THEN /\ Issue(kind, 0)
            /\ kad_subscriptions' = kad_subscriptions \cup {FreshQuery}
            /\ Respond(ev, 1, "Ok", 0)
       ELSE /\ NoIssue
            /\ UNCHANGED kad_subscriptions
            /\ Respond(ev, IF kad THEN 0 ELSE 1,
                       IF kad THEN "Err" ELSE "ProtocolDisabled", 0)
    /\ UNCHANGED <<kad, provider_stream, bitswap_provider_stream, record_stream,
                   dht_peer_lookup, chan, forward_tasks, peerbook, nonKadVars>>

\* IpfsEvent::Bootstrap, IpfsEvent::Provide, IpfsEvent::DhtPut
\* (task.rs:863-883, 1059-1080, 1101-1127): `ok` is the engine's answer
IssueOneShot(ev, kind, ok) ==
    /\ kad => next_query < MaxQueries
    /\ IF kad /\ ok
       THEN /\ Issue(kind, 0)
            /\ kad_subscriptions' = kad_subscriptions \cup {FreshQuery}
            /\ Respond(ev, 1, "Ok", 0)
       ELSE /\ NoIssue
            /\ UNCHANGED kad_subscriptions
            /\ Respond(ev, 1, IF kad THEN "Err" ELSE "ProtocolDisabled", 0)
    /\ UNCHANGED <<kad, provider_stream, bitswap_provider_stream, record_stream,
                   dht_peer_lookup, chan, forward_tasks, peerbook, nonKadVars>>

Bootstrap(ok) == IssueOneShot("Bootstrap", "Bootstrap", ok)
Provide(ok) == IssueOneShot("Provide", "StartProviding", ok)
DhtPut(ok) == IssueOneShot("DhtPut", "PutRecord", ok)

\* IpfsEvent::GetClosestPeers(peer_id, ret) (task.rs:911-929)
GetClosestPeers(peer) ==
    /\ kad => next_query < MaxQueries
    /\ IF kad
       THEN /\ Issue("GetClosestPeers", peer)
            /\ kad_subscriptions' = kad_subscriptions \cup {FreshQuery}
            /\ Respond("GetClosestPeers", 1, "rx", 0)
       ELSE /\ NoIssue
            /\ UNCHANGED kad_subscriptions
            \* tx.send(Err("kad protocol is disabled"))
            /\ Respond("GetClosestPeers", 1, "rx:ProtocolDisabled", 1)
    /\ UNCHANGED <<kad, provider_stream, bitswap_provider_stream, record_stream,
                   dht_peer_lookup, chan, forward_tasks, peerbook, nonKadVars>>

\* IpfsEvent::FindPeerIdentity(peer_id, ret) (task.rs:961-982)
FindPeerIdentity(peer) ==
    /\ IF peer \in peerbook
       THEN /\ NoIssue
            /\ UNCHANGED dht_peer_lookup
            \* tx.send(Ok(info))
            /\ Respond("FindPeerIdentity", 1, "rx:Info", 1)
       ELSE /\ kad => next_query < MaxQueries
            /\ IF kad THEN Issue("GetClosestPeers", peer) ELSE NoIssue
            /\ LET rets == IF peer \in DOMAIN dht_peer_lookup
                           THEN dht_peer_lookup[peer] ELSE <<>>
               IN /\ Len(rets) < MaxLookups
                  /\ dht_peer_lookup' =
                        MapInsert(dht_peer_lookup, peer, Append(rets, Len(rets) + 1))
            /\ Respond("FindPeerIdentity", 1, "rx", 0)
    /\ UNCHANGED <<kad, kad_subscriptions, provider_stream, bitswap_provider_stream,
                   record_stream, chan, forward_tasks, peerbook, nonKadVars>>

\* IpfsEvent::FindPeer(peer_id, local_only, ret) (task.rs:983-1023): `known`
\* says whether the peer book or the routing table has an address of the peer
FindPeer(peer, local_only, known) ==
    /\ IF known \/ local_only
       THEN /\ NoIssue
            /\ UNCHANGED kad_subscriptions
            /\ Respond("FindPeer", 1, "Left", 0)
       ELSE /\ kad => next_query < MaxQueries
            /\ IF kad
               THEN /\ Issue("GetClosestPeers", peer)
                    /\ kad_subscriptions' = kad_subscriptions \cup {FreshQuery}
                    /\ Respond("FindPeer", 1, "Right:rx", 0)
               ELSE /\ NoIssue
                    /\ UNCHANGED kad_subscriptions
                    \* tx goes out of scope with no send
                    /\ Respond("FindPeer", 1, "Right:rx:dropped", 0)
    /\ UNCHANGED <<kad, provider_stream, bitswap_provider_stream, record_stream,
                   dht_peer_lookup, chan, forward_tasks, peerbook, nonKadVars>>

\* provider_stream_insert that also registers a one-shot under the same id
provider_stream_insert_both(S, id) ==
    [S EXCEPT !.prov = @ \cup {id}, !.subs = @ \cup {id},
              !.chan = MapInsert(@, id, NewChan("provider"))]

RECURSIVE ProviderStream(_, _)
\* The stream handed to the caller of GetProviders (task.rs:1045-1052): what
\* it yields from the items `buf` received after `current_providers`
ProviderStream(buf, current_providers) ==
    IF buf = <<>> THEN <<>>
    ELSE IF Head(buf) \notin current_providers
         THEN <<Head(buf)>> \o ProviderStream(Tail(buf), current_providers \cup {Head(buf)})
         ELSE ProviderStream(Tail(buf), current_providers)

\* self.provider_stream.insert(id, tx) (task.rs:1053)
provider_stream_insert(S, id) ==
    [S EXCEPT !.prov = @ \cup {id}, !.chan = MapInsert(@, id, NewChan("provider"))]

\* self.bitswap_provider_stream.insert(id, response) (task.rs:637)
bitswap_provider_stream_insert(S, id) ==
    [S EXCEPT !.bsprov = @ \cup {id}, !.chan = MapInsert(@, id, NewChan("bitswap"))]

\* self.record_stream.insert(id, tx) (task.rs:1096)
record_stream_insert(S, id) ==
    [S EXCEPT !.rec = @ \cup {id}, !.chan = MapInsert(@, id, NewChan("record"))]

\* IpfsEvent::GetProviders(cid, ret) (task.rs:1032-1058)
GetProviders ==
    /\ kad => next_query < MaxQueries
    /\ IF kad
       THEN /\ Issue("GetProviders", 0)
            /\ SetTracker(provider_stream_insert(Tracker, FreshQuery))
            /\ Respond("GetProviders", 1, "Some(stream)", 0)
       ELSE /\ NoIssue
            /\ SetTracker(Tracker)
            /\ Respond("GetProviders", 1, "None", 0)
    /\ UNCHANGED <<kad, peerbook, nonKadVars>>

\* IpfsEvent::DhtGet(key, ret) (task.rs:1081-1100)
DhtGet ==
    /\ kad => next_query < MaxQueries
    /\ IF kad
       THEN /\ Issue("GetRecord", 0)
            /\ SetTracker(record_stream_insert(Tracker, FreshQuery))
            /\ Respond("DhtGet", 1, "stream", 0)
       ELSE /\ NoIssue
            /\ SetTracker(Tracker)
            \* tx goes out of scope: the stream ends at once
            /\ Respond("DhtGet", 1, "stream:ended", 0)
    /\ UNCHANGED <<kad, peerbook, nonKadVars>>

\* BitswapEvent::FindProviders { key, response, .. } (task.rs:632-639)
BitswapFindProviders ==
    /\ kad => next_query < MaxQueries
    /\ IF kad
       THEN /\ Issue("GetProviders", 0)
            /\ SetTracker(bitswap_provider_stream_insert(Tracker, FreshQuery))
       ELSE /\ NoIssue
            /\ SetTracker(Tracker)
    /\ handled' = [src |-> "swarm", ev |-> "BitswapFindProviders"]
    /\ UNCHANGED <<from_facade, kad, peerbook, nonKadVars>>

\* BitswapEvent::Provide { key } (task.rs:626-631): `ok` is the engine's answer
BitswapProvide(ok) ==
    /\ kad => next_query < MaxQueries
    /\ IF kad /\ ok THEN Issue("StartProviding", 0) ELSE NoIssue
    /\ handled' = [src |-> "swarm", ev |-> "BitswapProvide"]
    /\ UNCHANGED <<from_facade, kad, kad_subscriptions, provider_stream, bitswap_provider_stream,
                   record_stream, dht_peer_lookup, chan, forward_tasks, peerbook,
                   nonKadVars>>

\* ------------------------------------------------------------------ facade: listeners

Addrs == 1..MaxAddr

\* the addresses listener id is bound to, as the swarm sees it
BoundBy(id) ==
    IF id \in DOMAIN swarm_listeners /\ swarm_listeners[id].open
    THEN swarm_listeners[id].addrs ELSE {}

\* IpfsEvent::AddListeningAddress(addr, ret) (task.rs:829-839): `ok` says
\* whether swarm.listen_on(addr) returns a ListenerId
AddListeningAddress(addr, ok) ==
    /\ ok => next_listener < MaxListeners
    /\ IF ok
       THEN LET id == next_listener + 1
            IN /\ next_listener' = id
               /\ swarm_listeners' =
                     MapInsert(swarm_listeners, id, [addrs |-> {}, open |-> TRUE])
               /\ listeners' = listeners \cup {id}
               /\ listener_subscriptions' =
                     MapInsert(listener_subscriptions, id, "AddListeningAddress")
               /\ Respond("AddListeningAddress", 1, "Ok(rx)", 0)
       ELSE /\ UNCHANGED <<next_listener, swarm_listeners, listeners,
                           listener_subscriptions>>
            /\ Respond("AddListeningAddress", 1, "Err", 0)
    /\ UNCHANGED <<listening_addresses, nonLisVars>>

\* IpfsEvent::RemoveListeningAddress(addr, ret) (task.rs:840-862);
\* swarm.remove_listener(id) is true when the swarm still has the listener
RemoveListeningAddress(addr) ==
    /\ IF addr \in DOMAIN listening_addresses
       THEN LET id == listening_addresses[addr]
            IN /\ listening_addresses' = MapRemove(listening_addresses, addr)
               /\ IF id \in DOMAIN swarm_listeners /\ swarm_listeners[id].open
                  THEN /\ swarm_listeners' = [swarm_listeners EXCEPT ![id].open = FALSE]
                       /\ listeners' = listeners \ {id}
                       /\ listener_subscriptions' =
                             MapInsert(listener_subscriptions, id,
                                       "RemoveListeningAddress")
                       /\ Respond("RemoveListeningAddress", 1, "Ok(rx)", 0)
                  ELSE /\ UNCHANGED <<swarm_listeners, listeners,
                                      listener_subscriptions>>
                       /\ Respond("RemoveListeningAddress", 1,
                                            "ListenerRemovalFailed", 0)
       ELSE /\ UNCHANGED <<listening_addresses, swarm_listeners, listeners,
                           listener_subscriptions>>
            /\ Respond("RemoveListeningAddress", 1, "UnknownListener", 0)
    /\ UNCHANGED <<next_listener, nonLisVars>>

\* if let Some(ret) = self.listener_subscriptions.remove(&listener_id)
\*     { ret.send(val) }
resolve_listener(id, val) ==
    IF id \in DOMAIN listener_subscriptions
    THEN <<Send("listener_subscriptions", id, 0, val)>> ELSE <<>>

\* a lookup of the subscription that leaves it in the map
peek_listener(id) ==
    listener_subscriptions

\* self.listener_subscriptions.remove(&listener_id): the map afterwards
take_listener(id) ==
    MapRemove(listener_subscriptions, id)

\* SwarmEvent::NewListenAddr { listener_id, address } (task.rs:189-199): an
\* open listener of the swarm is bound to one more address
NewListenAddr(listener_id, address) ==
    /\ listener_id \in DOMAIN swarm_listeners
    /\ swarm_listeners[listener_id].open
    /\ \A id \in DOMAIN swarm_listeners : address \notin BoundBy(id)
    /\ swarm_listeners' =
          [swarm_listeners EXCEPT ![listener_id].addrs = @ \cup {address}]
    /\ listening_addresses' = MapInsert(listening_addresses, address, listener_id)
    /\ listener_subscriptions' = take_listener(listener_id)
    /\ handled' = [src |-> "swarm", ev |-> "NewListenAddr", id |-> listener_id,
                   sent |-> resolve_listener(listener_id, "Left(address)")]
    /\ UNCHANGED <<from_facade, listeners, next_listener, nonLisVars>>

\* SwarmEvent::ExpiredListenAddr { listener_id, address } (task.rs:200-210):
\* an open listener of the swarm loses one of its addresses
ExpiredListenAddr(listener_id, address) ==
    /\ address \in BoundBy(listener_id)
    /\ swarm_listeners' =
          [swarm_listeners EXCEPT ![listener_id].addrs = @ \ {address}]
    /\ listeners' = listeners \ {listener_id}
    /\ listening_addresses' = MapRemove(listening_addresses, address)
    /\ listener_subscriptions' = take_listener(listener_id)
    /\ handled' = [src |-> "swarm", ev |-> "ExpiredListenAddr", id |-> listener_id,
                   sent |-> resolve_listener(listener_id, "Left(address)")]
    /\ UNCHANGED <<from_facade, next_listener, nonLisVars>>

\* the map without the keys in S
MapRemoveAll(m, S) == [x \in DOMAIN m \ S |-> m[x]]

\* SwarmEvent::ListenerClosed { listener_id, reason, addresses }
\* (task.rs:211-223): the swarm reports the end of a listener, one it was told
\* to remove or one that closed by itself, with the addresses it was bound to
ListenerClosed(listener_id) ==
    /\ listener_id \in DOMAIN swarm_listeners
    /\ LET addresses == swarm_listeners[listener_id].addrs
       IN listening_addresses' = MapRemoveAll(listening_addresses, addresses)
    /\ swarm_listeners' = MapRemove(swarm_listeners, listener_id)
    /\ listeners' = listeners \ {listener_id}
    /\ listener_subscriptions' = take_listener(listener_id)
    /\ handled' = [src |-> "swarm", ev |-> "ListenerClosed", id |-> listener_id,
                   sent |-> resolve_listener(listener_id, "Right(reason)")]
    /\ UNCHANGED <<from_facade, next_listener, nonLisVars>>

\* SwarmEvent::ListenerError { listener_id, error } (task.rs:224-229): a
\* non-fatal error of an open listener
ListenerError(listener_id) ==
    /\ listener_id \in DOMAIN swarm_listeners
    /\ swarm_listeners[listener_id].open
    /\ listeners' = listeners \ {listener_id}
    /\ listener_subscriptions' = take_listener(listener_id)
    /\ handled' = [src |-> "swarm", ev |-> "ListenerError", id |-> listener_id,
                   sent |-> resolve_listener(listener_id, "Right(Err(error))")]
    /\ UNCHANGED <<from_facade, listening_addresses, swarm_listeners,
                   next_listener, nonLisVars>>

\* ------------------------------------------------------------------ facade: bootstrappers

\* A bootstrapper address is <<base, peer>>: the address `base` followed by
\* /p2p/peer, or by nothing when peer = 0.
BootAddrs == {<<1, 0>>} \cup {<<b, 1>> : b \in Addrs}

\* BOOTSTRAP_NODES, each with a peer id (task.rs:1209-1212)
BOOTSTRAP_NODES == <<<<MaxAddr, 1>>>>

\* addr.extract_peer_id(): the peer id of a trailing /p2p, which it strips
extract_peer_id(addr) ==
    IF addr[2] = 0 THEN <<None, addr>> ELSE <<Some(addr[2]), <<addr[1], 0>>>>

\* kad.add_address(&peer_id, addr)
add_address(routing, peer, addr) == routing \cup {<<peer, addr[1]>>}

\* kad.remove_address(&peer_id, &prefix)
remove_address(routing, peer, addr) == routing \ {<<peer, addr[1]>>}

\* IpfsEvent::GetBootstrappers(ret) (task.rs:1128-1131)
GetBootstrappers ==
    /\ Respond("GetBootstrappers", 1, bootstraps, 0)
    /\ UNCHANGED <<sessVars, kadVars, lisVars, bootVars, loopVars, repoVars, pathVars, protoVars>>

\* IpfsEvent::AddBootstrapper(addr, ret) (task.rs:1132-1151)
AddBootstrapper(addr) ==
    /\ IF ~kad
       THEN /\ UNCHANGED bootVars
            /\ Respond("AddBootstrapper", 1, "ProtocolDisabled", 0)
       ELSE LET e == extract_peer_id(addr)
            IN /\ bootstraps' = bootstraps \cup {addr}
               /\ kad_routing' =
                     IF addr \notin bootstraps /\ e[1] # None
                     THEN add_address(kad_routing, UnwrapOr(e[1], 0), e[2])
                     ELSE kad_routing
               /\ Respond("AddBootstrapper", 1, <<"Ok", addr>>, 0)
    /\ UNCHANGED <<sessVars, kadVars, lisVars, loopVars, repoVars, pathVars, protoVars>>

\* IpfsEvent::RemoveBootstrapper(addr, ret) (task.rs:1152-1177)
RemoveBootstrapper(addr) ==
    /\ IF ~kad
       THEN /\ UNCHANGED bootVars
            /\ Respond("RemoveBootstrapper", 1, "ProtocolDisabled", 0)
       ELSE LET e == extract_peer_id(addr)
            IN /\ bootstraps' = bootstraps \ {addr}
               /\ kad_routing' =
                     IF addr \in bootstraps /\ e[1] # None
                     THEN remove_address(kad_routing, UnwrapOr(e[1], 0), e[2])
                     ELSE kad_routing
               /\ Respond("RemoveBootstrapper", 1, <<"Ok", addr>>, 0)
    /\ UNCHANGED <<sessVars, kadVars, lisVars, loopVars, repoVars, pathVars, protoVars>>

\* the addresses of S that end in a peer id
WithPeer(S) == {a \in S : extract_peer_id(a)[1] # None}

RECURSIVE RemoveAll(_, _)
\* the routing table after remove_address for every address of the set S
RemoveAll(routing, S) ==
    IF S = {} THEN routing
    ELSE LET a == CHOOSE x \in S : TRUE
             e == extract_peer_id(a)
         IN RemoveAll(remove_address(routing, UnwrapOr(e[1], 0), e[2]), S \ {a})

\* IpfsEvent::ClearBootstrappers(ret) (task.rs:1178-1205): `entries` are the
\* drained addresses for which kad.remove_address returns an entry; the reply
\* is the list of those, in the order the set was drained
ClearBootstrappers(entries) ==
    /\ entries \subseteq (IF kad THEN WithPeer(bootstraps) ELSE {})
    /\ LET removed == bootstraps
           list == IF kad THEN {a \in WithPeer(removed) : a \in entries} ELSE {}
       IN /\ bootstraps' = {}
          /\ kad_routing' = IF kad THEN RemoveAll(kad_routing, WithPeer(removed))
                            ELSE kad_routing
          /\ Respond("ClearBootstrappers", 1, list, 0)
    /\ UNCHANGED <<sessVars, kadVars, lisVars, loopVars, repoVars, pathVars, protoVars>>

RECURSIVE RestoreAll(_, _)
\* the loop of DefaultBootstrap over the nodes still to visit: st is
\* <<bootstraps, routing table, rets>>
RestoreAll(st, nodes) ==
    IF nodes = <<>> THEN st
    ELSE LET addr == Head(nodes)
             e == extract_peer_id(addr)
         IN IF addr \notin st[1]
            THEN IF e[1] = None
                 THEN RestoreAll(<<st[1] \cup {addr}, st[2], st[3]>>, Tail(nodes))
                 ELSE RestoreAll(<<st[1] \cup {addr},
                                   add_address(st[2], UnwrapOr(e[1], 0), e[2]),
                                   Append(st[3], addr)>>, Tail(nodes))
            ELSE RestoreAll(st, Tail(nodes))

\* IpfsEvent::DefaultBootstrap(ret) (task.rs:1206-1233)
DefaultBootstrap ==
    /\ LET st == IF kad
                 THEN RestoreAll(<<bootstraps, kad_routing, <<>>>>, BOOTSTRAP_NODES)
                 ELSE <<bootstraps, kad_routing, <<>>>>
       IN /\ bootstraps' = st[1]
          /\ kad_routing' = st[2]
          /\ Respond("DefaultBootstrap", 1, <<"Ok", st[3]>>, 0)
    /\ UNCHANGED <<sessVars, kadVars, lisVars, loopVars, repoVars, pathVars, protoVars>>

\* ------------------------------------------------------------------ facade: replies

\* The arms of handle_event that ask the swarm or one of its behaviours and
\* send the answer (task.rs:747-828, 884-910, 1024-1031)
ReplyCommands ==
    {"Connect", "Protocol", "Addresses", "Listeners", "IsConnected", "Connected",
     "Disconnect", "Ban", "Unban", "GetAddresses", "PubsubSubscribe",
     "PubsubUnsubscribe", "PubsubPublish", "PubsubPeers", "PubsubSubscribed",
     "PubsubEventStream", "AddPeer", "RemovePeer", "WhitelistPeer",
     "RemoveWhitelistPeer"}

Reply(ev) ==
    /\ ev \in ReplyCommands
    /\ Respond(ev, 1, "answer", 0)
    /\ UNCHANGED <<sessVars, kadVars, lisVars, bootVars, loopVars, repoVars, pathVars, protoVars>>

\* IpfsEvent::WantList(peer, ret), IpfsEvent::GetBitswapPeers(ret)
\* (task.rs:930-960): a future over the exchange client, or a ready empty list
BitswapReply(ev) ==
    /\ ev \in {"WantList", "GetBitswapPeers"}
    /\ Respond(ev, 1, IF bitswap THEN "future" ELSE "ready(vec![])", 0)
    /\ UNCHANGED <<sessVars, kadVars, lisVars, bootVars, loopVars, repoVars, pathVars, protoVars>>

\* ------------------------------------------------------------------ run

\* the three streams run selects over: self.swarm, self.from_facade and
\* self.repo_events (task.rs:106, 112, 121)
Sources == {"swarm", "facade", "repo"}

\* inputs whose handler leaves the task's maps alone: a swarm event of the
\* `_ => trace!` arm (task.rs:739), the facade commands Protocol
\* (answered on its responder) and Exit, RepoEvent::UnwantBlock (task.rs:1276)
Events(src) ==
    CASE src = "swarm" -> {"Other"}
      [] src = "facade" -> {"Protocol", "Exit"}
      [] src = "repo" -> {"UnwantBlock"}

\* connected_peer_timer and session_cleanup (task.rs:102-103)
Timers == {"connected_peer_timer", "session_cleanup"}

\* a sender pushes ev onto a source: it is the k-th input of that source
Arrive(src, ev) ==
    /\ produced.swarm + produced.facade + produced.repo < MaxInputs
    /\ inbox' = [inbox EXCEPT ![src] =
                    Append(@, [src |-> src, ev |-> ev, k |-> produced[src] + 1])]
    /\ produced' = [produced EXCEPT ![src] = @ + 1]
    /\ handled' = [src |-> "source", ev |-> "arrive"]
    /\ UNCHANGED <<ticks, pc, cur, delay, first_run, notified, log, from_facade>>
    /\ UNCHANGED <<sessVars, kadVars, lisVars, bootVars, repoVars, pathVars, protoVars>>

\* a stream that yields its newest item first
PopLast(queue) ==
    <<queue[Len(queue)], SubSeq(queue, 1, Len(queue) - 1)>>

\* stream.next() (task.rs:106, 112, 121): the oldest item and the rest
Pop(queue) ==
    <<Head(queue), Tail(queue)>>

\* the end of an iteration that signals the notifier every time
FirstRunEveryTime ==
    /\ first_run' = TRUE
    /\ notified' = notified + 1

\* if !first_run { first_run = true; notify.notify_one(); } (task.rs:149-152)
FirstRun ==
    /\ first_run' = TRUE
    /\ notified' = IF first_run THEN notified ELSE notified + 1

\* the body of the chosen arm and the end of the iteration (task.rs:110,
\* 119, 122, 125, 128-147, 149-152); the handlers of these inputs change
\* none of the task's maps (the session registry is empty at the tick)
Dispatch(input) ==
    /\ log' = Append(log, input)
    /\ FirstRun
    /\ pc' = "select"
    /\ handled' = [src |-> input.src, ev |-> input.ev, k |-> input.k]

\* an Exit that is handled like any other command
NoBreak(event) ==
    Dispatch(event)

\* if matches!(event, IpfsEvent::Exit) { break; } (task.rs:113-115)
Break(event) ==
    /\ pc' = "done"
    /\ handled' = [src |-> event.src, ev |-> "break", k |-> event.k]
    /\ UNCHANGED <<log, first_run, notified>>

\* one of the three stream arms of the select is taken (task.rs:106-123):
\* Exit leaves the loop, the startup delay suspends the arm before its
\* handler, anything else is handled at once
Read(src) ==
    /\ pc = "select"
    /\ inbox[src] # <<>>
    /\ LET next == Pop(inbox[src])
           input == next[1]
       IN /\ inbox' = [inbox EXCEPT ![src] = next[2]]
          /\ cur' = input
          /\ from_facade' = IF src = "facade" THEN from_facade + 1 ELSE from_facade
          /\ IF src = "facade" /\ input.ev = "Exit"
             THEN Break(input)
             ELSE IF delay /\ src \in {"swarm", "facade"}
                  THEN /\ pc' = "sleep"
                       /\ handled' = [src |-> src, ev |-> "sleep", k |-> input.k]
                       /\ UNCHANGED <<log, first_run, notified>>
                  ELSE Dispatch(input)
    /\ UNCHANGED <<produced, ticks, delay>>
    /\ UNCHANGED <<sessVars, kadVars, lisVars, bootVars, repoVars, pathVars, protoVars>>

\* tokio::time::sleep(Duration::from_nanos(10)).await is over (task.rs:108,
\* 117): the handler of the input read before the sleep runs
Wake ==
    /\ pc = "sleep"
    /\ Dispatch(cur)
    /\ UNCHANGED <<inbox, produced, ticks, cur, delay, from_facade>>
    /\ UNCHANGED <<sessVars, kadVars, lisVars, bootVars, repoVars, pathVars, protoVars>>

\* _ = connected_peer_timer.tick(), _ = session_cleanup.tick()
\* (task.rs:124-147)
Tick(timer) ==
    /\ pc = "select"
    /\ ticks < MaxTicks
    /\ ticks' = ticks + 1
    /\ cur' = [src |-> "timer", ev |-> timer, k |-> ticks + 1]
    /\ Dispatch(cur')
    /\ UNCHANGED <<inbox, produced, delay, from_facade>>
    /\ UNCHANGED <<sessVars, kadVars, lisVars, bootVars, repoVars, pathVars, protoVars>>

\* ------------------------------------------------------------------ path.rs

\* A string is kept as the sequence string.split('/') yields (path.rs:23):
\* "/ipfs/Qm/a/" is <<"", "ipfs", "Qm", "a", "">>, and a string is rebuilt
\* from its pieces by writing a '/' between them.
\*   "Qm"    a CIDv0, base58btc            "bafy"  a CIDv1, base32
\*   "zb2"   the CIDv1 of "bafy", base58btc
\*   "12D3"  a peer id, base58             "foobar.com", "a"  anything else
Pieces == {"", "ipfs", "ipld", "ipns", "Qm", "zb2", "12D3", "foobar.com", "a"}

Strings == UNION {[1..n -> Pieces] : n \in 1..MaxPieces}

Err == [ok |-> FALSE, root |-> [kind |-> "none", key |-> ""], path |-> <<>>]

\* a Cid::try_from that takes every non-empty piece for a CID
CidTryFromLenient(piece) ==
    IF piece = "" THEN [ok |-> FALSE, cid |-> "none"]
    ELSE [ok |-> TRUE, cid |-> IF piece = "Qm" THEN "v0" ELSE "v1"]

\* Cid::try_from(&str) (path.rs:28, 34, 35): the multibase text of a CID
\* decodes to the CID whatever base it is written in
CidTryFrom(piece) ==
    CASE piece = "Qm" -> [ok |-> TRUE, cid |-> "v0"]
      [] piece \in {"bafy", "zb2"} -> [ok |-> TRUE, cid |-> "v1"]
      [] OTHER -> [ok |-> FALSE, cid |-> "none"]

\* cid.to_string() (path.rs:304): base58btc for a CIDv0, base32 for a CIDv1
CidToString(cid) == IF cid = "v0" THEN "Qm" ELSE "bafy"

\* PeerId::from_str(key).ok() (path.rs:36)
PeerIdFromStr(piece) ==
    IF piece = "12D3" THEN [ok |-> TRUE, peer_id |-> "peer"]
    ELSE [ok |-> FALSE, peer_id |-> "none"]

\* peer_id.to_base58() (path.rs:305)
ToBase58(peer_id) == "12D3"

\* a push_split that pushes the empty pieces too
RECURSIVE push_split_keep_empty(_, _)
push_split_keep_empty(acc, split) ==
    IF split = <<>> THEN [ok |-> TRUE, path |-> acc]
    ELSE push_split_keep_empty(Append(acc, Head(split)), Tail(split))

\* SlashedPath::push_split (path.rs:179-197): the result and self.path
\* afterwards; the pieces before an empty piece in the middle have been
\* pushed when the Err is returned
RECURSIVE push_split(_, _)
push_split(acc, split) ==
    IF split = <<>> THEN [ok |-> TRUE, path |-> acc]
    ELSE IF Head(split) = ""
         THEN IF Tail(split) = <<>>
              THEN [ok |-> TRUE, path |-> acc]
              ELSE [ok |-> FALSE, path |-> acc]
         ELSE push_split(Append(acc, Head(split)), Tail(split))

\* SlashedPath::push_path (path.rs:171-177)
push_path(acc, string) ==
    IF string = <<"">> THEN [ok |-> TRUE, path |-> acc]
    ELSE push_split(acc, string)

\* the root and the rest of the split (path.rs:24-45)
ParseRoot(string) ==
    LET empty == string[1]
    IN IF empty # ""
       THEN LET c == CidTryFrom(empty)
            IN [ok |-> c.ok, root |-> [kind |-> "Ipld", key |-> c.cid],
                rest |-> Tail(string)]
       ELSE IF Len(string) < 3
            THEN [ok |-> FALSE, root |-> Err.root, rest |-> <<>>]
            ELSE LET root_type == string[2]
                     key == string[3]
                     rest == SubSeq(string, 4, Len(string))
                 IN IF root_type \in {"ipfs", "ipld"}
                    THEN LET c == CidTryFrom(key)
                         IN [ok |-> c.ok, root |-> [kind |-> "Ipld", key |-> c.cid],
                             rest |-> rest]
                    ELSE IF root_type = "ipns"
                    THEN LET p == PeerIdFromStr(key)
                         IN [ok |-> TRUE,
                             root |-> IF p.ok THEN [kind |-> "Ipns", key |-> p.peer_id]
                                      ELSE [kind |-> "Dns", key |-> key],
                             rest |-> rest]
                    ELSE [ok |-> FALSE, root |-> Err.root, rest |-> <<>>]

\* <IpfsPath as FromStr>::from_str (path.rs:22-52)
from_str(string) ==
    LET r == ParseRoot(string)
    IN IF ~r.ok THEN Err
       ELSE LET pushed == push_split(<<>>, r.rest)
            IN IF pushed.ok
               THEN [ok |-> TRUE, root |-> r.root, path |-> pushed.path]
               ELSE Err

\* <PathRoot as fmt::Display>::fmt (path.rs:301-310): prefix and key, as the
\* pieces of the text written
DisplayRoot(root) ==
    CASE root.kind = "Ipld" -> <<"", "ipfs", CidToString(root.key)>>
      [] root.kind = "Ipns" -> <<"", "ipns", ToBase58(root.key)>>
      [] root.kind = "Dns" -> <<"", "ipns", root.key>>

\* <IpfsPath as fmt::Display>::fmt (path.rs:109-119) over
\* <SlashedPath as fmt::Display>::fmt (path.rs:221-234)
to_string(p) ==
    IF p.path # <<>> THEN DisplayRoot(p.root) \o p.path
    ELSE DisplayRoot(p.root)

\* no string has been handed to the parser
NoPath == [input |-> <<>>, stage |-> "none", parsed |-> Err, shown |-> <<>>]

\* IpfsPath::try_from(*input) (path.rs:388, 121-127)
TryFrom ==
    /\ path.stage = "input"
    /\ LET parsed == from_str(path.input)
       IN path' = [path EXCEPT !.parsed = parsed,
                               !.stage = IF parsed.ok THEN "parsed" ELSE "rejected"]
    /\ handled' = [src |-> "call", ev |-> "try_from"]
    /\ UNCHANGED <<sessVars, kadVars, lisVars, bootVars, from_facade, loopVars,
                   repoVars, protoVars>>

\* .unwrap().to_string() (path.rs:388)
Display ==
    /\ path.stage = "parsed"
    /\ path' = [path EXCEPT !.shown = to_string(path.parsed), !.stage = "shown"]
    /\ handled' = [src |-> "call", ev |-> "to_string"]
    /\ UNCHANGED <<sessVars, kadVars, lisVars, bootVars, from_facade, loopVars,
                   repoVars, protoVars>>

\* the strings handed to push_str: at most MaxPush pieces
PushStrings == UNION {[1..n -> {"", "a", "Qm"}] : n \in 1..MaxPush}

\* IpfsPath::push_str(string) (path.rs:71-74) on the parsed locator
PushStr(string) ==
    /\ path.stage = "parsed"
    /\ Len(path.parsed.path) + Len(string) <= MaxPieces
    /\ LET pushed == push_path(path.parsed.path, string)
       IN /\ path' = [path EXCEPT !.parsed.path = pushed.path]
          /\ handled' = [src |-> "call", ev |-> "push_str", string |-> string,
                         ok |-> pushed.ok]
    /\ UNCHANGED <<sessVars, kadVars, lisVars, bootVars, from_facade, loopVars,
                   repoVars, protoVars>>

\* ------------------------------------------------------------------ protocol.rs

\* enum ProtocolId (protocol.rs:18-24)
ProtocolId == {"Legacy", "Bitswap100", "Bitswap110", "Bitswap120"}

\* discriminants that follow the protocol strings read as text
DiscriminantNewestFirst(p) ==
    CASE p = "Legacy" -> 3 [] p = "Bitswap100" -> 2
      [] p = "Bitswap110" -> 1 [] p = "Bitswap120" -> 0

\* Legacy = 0, Bitswap100 = 1, Bitswap110 = 2, Bitswap120 = 3
\* (protocol.rs:20-23)
Discriminant(p) ==
    CASE p = "Legacy" -> 0 [] p = "Bitswap100" -> 1
      [] p = "Bitswap110" -> 2 [] p = "Bitswap120" -> 3

\* #[derive(PartialOrd, Ord)] (protocol.rs:18): a < b
lt(a, b) == Discriminant(a) < Discriminant(b)

\* the place of p in a sorted list: after every element that is not greater
RECURSIVE insert(_, _)
insert(sorted, p) ==
    IF sorted = <<>> THEN <<p>>
    ELSE IF lt(p, Head(sorted)) THEN <<p>> \o sorted
         ELSE <<Head(sorted)>> \o insert(Tail(sorted), p)

\* protocols.sort() (protocol.rs:261): the stable ascending sort of the slice
RECURSIVE sort(_)
sort(list) ==
    IF list = <<>> THEN <<>>
    ELSE insert(sort(SubSeq(list, 1, Len(list) - 1)), list[Len(list)])

\* a supports_have that is true from v1.1.0 on
supports_have_v1(p) == p \in {"Bitswap110", "Bitswap120"}

\* ProtocolId::supports_have (protocol.rs:72-74)
supports_have(p) == p = "Bitswap120"

\* A BitswapMessage as the specification describes it: wantlist entries,
\* block payloads, presence hints and a pending-bytes counter. A block is
\* typed when it carries a CID prefix of its own, a want is "Have" from
\* v1.2.0 on. Sizes are in bytes.
DataSizes == {1, 4}
Blocks == [typed : BOOLEAN, data : DataSizes]
Entries == [want_type : {"Block", "Have"}]
Presences == [type : {"Have"}]
NoMessage == [wantlist |-> <<>>, blocks |-> <<>>, presences |-> <<>>, pending |-> 0]
Messages ==
    [wantlist : {<<>>} \cup {<<e>> : e \in Entries},
     blocks : UNION {[1..n -> Blocks] : n \in 0..MaxBlocks},
     presences : {<<>>} \cup {<<h>> : h \in Presences},
     pending : {0, 1}]

\* item.encode_as_proto_v0() (protocol.rs:181): the v0 schema has the
\* wantlist with plain entries and the blocks as raw bytes, nothing else
encode_as_proto_v0(item) ==
    [wantlist |-> [i \in 1..Len(item.wantlist) |-> [want_type |-> "Block"]],
     blocks |-> [i \in 1..Len(item.blocks) |-> item.blocks[i].data],
     payload |-> <<>>,
     block_presences |-> <<>>,
     pending_bytes |-> 0]

\* item.encode_as_proto_v1() (protocol.rs:182): the v1 schema has the
\* wantlist, the blocks as {prefix, data}, the presence hints and pendingBytes
encode_as_proto_v1(item) ==
    [wantlist |-> item.wantlist,
     blocks |-> <<>>,
     payload |-> [i \in 1..Len(item.blocks) |->
                    [prefix |-> item.blocks[i].typed, data |-> item.blocks[i].data]],
     block_presences |-> item.presences,
     pending_bytes |-> item.pending]

\* BitswapMessage::try_from(packet.freeze()) (protocol.rs:212): raw blocks
\* come back untyped, {prefix, data} blocks with their prefix
try_from(message) ==
    [wantlist |-> message.wantlist,
     blocks |-> [i \in 1..Len(message.blocks) |->
                   [typed |-> FALSE, data |-> message.blocks[i]]]
                \o [i \in 1..Len(message.payload) |->
                      [typed |-> message.payload[i].prefix,
                       data |-> message.payload[i].data]],
     presences |-> message.block_presences,
     pending |-> message.pending_bytes]

\* message.get_size() (protocol.rs:184): two bytes for an entry or a hint,
\* one for pendingBytes, a block's data after one byte of header, two when
\* it has a prefix
get_size(message) ==
    2 * Len(message.wantlist)
    + SumOver(1..Len(message.blocks),
              [i \in 1..Len(message.blocks) |-> 1 + message.blocks[i]])
    + SumOver(1..Len(message.payload),
              [i \in 1..Len(message.payload) |-> 2 + message.payload[i].data])
    + 2 * Len(message.block_presences)
    + (IF message.pending_bytes # 0 THEN 1 ELSE 0)

\* the bytes of an unsigned varint: seven bits of the number in each
uvi_len(n) ==
    IF n < 128 THEN 1 ELSE IF n < 16384 THEN 2 ELSE IF n < 2097152 THEN 3 ELSE 4

\* a frame in a buffer: the length its prefix advertises, the bytes of the
\* body that are there, and the body
Frame(message) ==
    [len |-> get_size(message), avail |-> get_size(message), body |-> message]

\* the bytes of a buffer of whole frames
ByteLen(buffer) ==
    SumOver(1..Len(buffer),
            [i \in 1..Len(buffer) |-> uvi_len(buffer[i].len) + buffer[i].avail])

\* a schema choice that is v0 for every version
proto_v0_always(protocol, item) == encode_as_proto_v0(item)

\* a schema choice that looks at the message too: v1 as soon as the message
\* has a presence hint
proto_by_content(protocol, item) ==
    IF protocol \in {"Legacy", "Bitswap100"} /\ item.presences = <<>>
    THEN encode_as_proto_v0(item)
    ELSE encode_as_proto_v1(item)

\* match self.protocol { Legacy | Bitswap100 => .., Bitswap110 | Bitswap120
\* => .. } (protocol.rs:180-183)
proto(protocol, item) ==
    IF protocol \in {"Legacy", "Bitswap100"} THEN encode_as_proto_v0(item)
    ELSE encode_as_proto_v1(item)

\* self.length_codec.encode(..) (protocol.rs:190-191): a body longer than
\* max_len is refused with PermissionDenied before anything is written
uvi_encode(max, message, dst) ==
    IF get_size(message) > max
    THEN [err |-> "PermissionDenied", dst |-> dst]
    ELSE [err |-> "none", dst |-> Append(dst, Frame(message))]

\* a decode that reports every error of the length codec as Io
decode_err_io(kind) == "Io"

\* .map_err(|e| if let PermissionDenied = e.kind() { MaxTransmissionSize }
\* else { Io(e) }) (protocol.rs:201-207)
decode_err(kind) ==
    IF kind = "PermissionDenied" THEN "MaxTransmissionSize" ELSE "Io"

\* self.length_codec.decode(src) (protocol.rs:201): the prefix is read; a
\* prefix that cannot be read is InvalidData, a length above max_len is
\* PermissionDenied, a body that is not all there yet is None
uvi_decode(max, src) ==
    LET frame == Head(src)
    IN IF frame.len < 0 THEN [err |-> "InvalidData", packet |-> FALSE]
       ELSE IF frame.len > max THEN [err |-> "PermissionDenied", packet |-> FALSE]
       ELSE [err |-> "none", packet |-> frame.avail >= frame.len]

NoResult == [call |-> "none", kind |-> "none", message |-> NoMessage,
             protocol |-> "none"]

\* no codec has been built; `negotiated` keeps the protocol_id the upgrade
\* was called with
NoCodec == [protocol |-> "none", max |-> 0, item |-> NoMessage, dst |-> <<>>,
            src |-> <<>>, result |-> NoResult, negotiated |-> "none"]

\* a codec built for the newest version whatever was negotiated
BitswapCodec_newest(stream, max, protocol) ==
    [stream EXCEPT !.protocol = "Bitswap120", !.max = max]

\* BitswapCodec::new(length_codec, protocol) (protocol.rs:165-170) after
\* length_codec.set_max_len(max) (protocol.rs:120, 139), on a stream
BitswapCodec_new(stream, max, protocol) ==
    [stream EXCEPT !.protocol = protocol, !.max = max]

\* upgrade_inbound and upgrade_outbound (protocol.rs:118-125, 137-144):
\* the stream is framed with a codec of the negotiated version and of the
\* configured max_transmit_size
Upgrade(protocol_id) ==
    /\ codec.protocol = "none"
    /\ codec' = [BitswapCodec_new(codec, codec.max, protocol_id)
                    EXCEPT !.negotiated = protocol_id]
    /\ handled' = [src |-> "call", ev |-> "upgrade"]
    /\ UNCHANGED <<sessVars, kadVars, lisVars, bootVars, from_facade, loopVars,
                   repoVars, pathVars, protocols>>

\* <BitswapCodec as Encoder>::encode (protocol.rs:177-193)
Encode ==
    /\ codec.protocol # "none"
    /\ codec.result.call = "none"
    /\ codec.src = <<>>
    /\ LET message == proto(codec.protocol, codec.item)
           written == uvi_encode(codec.max, message, codec.dst)
       IN codec' = [codec EXCEPT
                       !.dst = written.dst,
                       !.result = [NoResult EXCEPT
                                      !.call = "encode",
                                      !.kind = IF written.err = "none" THEN "Ok"
                                               ELSE "MaxTransmissionSize"]]
    /\ handled' = [src |-> "call", ev |-> "encode"]
    /\ UNCHANGED <<sessVars, kadVars, lisVars, bootVars, from_facade, loopVars,
                   repoVars, pathVars, protocols>>

\* the frames a codec wrote reach the codec of the same version at the other
\* end of the stream
Transfer ==
    /\ codec.dst # <<>>
    /\ codec.src = <<>>
    /\ codec' = [codec EXCEPT !.src = codec.dst, !.dst = <<>>]
    /\ handled' = [src |-> "stream", ev |-> "transfer"]
    /\ UNCHANGED <<sessVars, kadVars, lisVars, bootVars, from_facade, loopVars,
                   repoVars, pathVars, protocols>>

\* <BitswapCodec as Decoder>::decode (protocol.rs:200-215)
Decode ==
    /\ codec.protocol # "none"
    /\ codec.src # <<>>
    /\ codec.result.call # "decode"
    /\ LET read == uvi_decode(codec.max, codec.src)
       IN codec' =
            IF read.err # "none"
            THEN [codec EXCEPT !.result = [NoResult EXCEPT
                                              !.call = "decode",
                                              !.kind = decode_err(read.err)]]
            ELSE IF ~read.packet
            THEN [codec EXCEPT !.result = [NoResult EXCEPT
                                              !.call = "decode",
                                              !.kind = "Ok(None)"]]
            ELSE [codec EXCEPT
                     !.src = Tail(codec.src),
                     !.result = [call |-> "decode", kind |-> "Ok(Some)",
                                 message |-> try_from(Head(codec.src).body),
                                 protocol |-> codec.protocol]]
    /\ handled' = [src |-> "call", ev |-> "decode"]
    /\ UNCHANGED <<sessVars, kadVars, lisVars, bootVars, from_facade, loopVars,
                   repoVars, pathVars, protocols>>

\* no list of versions is at hand
NoProtocols == [list |-> <<>>, sorted |-> <<>>, is_sorted |-> FALSE,
                have |-> {}, asked |-> FALSE]

\* protocols.sort() on the list at hand
Sort ==
    /\ protocols.list # <<>>
    /\ ~protocols.is_sorted
    /\ protocols' = [protocols EXCEPT !.sorted = sort(protocols.list),
                                      !.is_sorted = TRUE]
    /\ handled' = [src |-> "call", ev |-> "sort"]
    /\ UNCHANGED <<sessVars, kadVars, lisVars, bootVars, from_facade, loopVars,
                   repoVars, pathVars, codec>>

\* supports_have asked of every version of the list at hand
SupportsHave ==
    /\ protocols.list # <<>>
    /\ ~protocols.asked
    /\ protocols' =
          [protocols EXCEPT
              !.have = {protocols.list[i] : i \in
                           {j \in 1..Len(protocols.list) :
                               supports_have(protocols.list[j])}},
              !.asked = TRUE]
    /\ handled' = [src |-> "call", ev |-> "supports_have"]
    /\ UNCHANGED <<sessVars, kadVars, lisVars, bootVars, from_facade, loopVars,
                   repoVars, pathVars, codec>>

\* ------------------------------------------------------------------ specs

\* the query tracker and the DHT engine before any command
InitKadVars ==
    /\ kad_queries = <<>>
    /\ next_query = 0
    /\ kad_subscriptions = {}
    /\ provider_stream = {}
    /\ bitswap_provider_stream = {}
    /\ record_stream = {}
    /\ dht_peer_lookup = <<>>
    /\ chan = <<>>
    /\ forward_tasks = EmptyBag
    /\ peerbook = {}

\* run before its first iteration, no input waiting (task.rs:100-103)
InitLoopVars ==
    /\ inbox = [swarm |-> <<>>, facade |-> <<>>, repo |-> <<>>]
    /\ produced = [swarm |-> 0, facade |-> 0, repo |-> 0]
    /\ ticks = 0
    /\ pc = "select"
    /\ cur = [src |-> "none", ev |-> "none", k |-> 0]
    /\ first_run = FALSE
    /\ notified = 0
    /\ log = <<>>

\* the listener maps and the bootstrap set before any command
InitOtherVars ==
    /\ listening_addresses = <<>>
    /\ listeners = {}
    /\ listener_subscriptions = <<>>
    /\ swarm_listeners = <<>>
    /\ next_listener = 0
    /\ bootstraps = {}
    /\ kad_routing = {}
    /\ from_facade = 0
    /\ notify_tasks = EmptyBag
    /\ protocols = NoProtocols
    /\ codec = NoCodec
    /\ path = NoPath
    /\ delay = FALSE
    /\ InitLoopVars

Sessions == 0..MaxSession

InitSession ==
    /\ bitswap \in BOOLEAN
    /\ bitswap_sessions = <<>>
    /\ destroy_tasks = EmptyBag
    /\ kad = FALSE
    /\ InitKadVars
    /\ InitOtherVars
    /\ handled = [src |-> "none", ev |-> "none"]

NextSession ==
    \/ \E session \in {None} \cup {Some(s) : s \in Sessions} : WantBlock(session)
    \/ \E ctx \in Sessions, i \in 1..MaxWorkers : WorkerStep(ctx, i)
    \/ \E t \in BagToSet(destroy_tasks), i \in 1..MaxWorkers : HeldWorkerStep(t, i)
    \/ \E t \in BagToSet(destroy_tasks) : DestroyTaskStep(t)
    \/ \E ctx \in Sessions : DestroySession(ctx)
    \/ SessionCleanup

SpecSession == InitSession /\ [][NextSession]_vars

\* Registries SpecGc starts from: n sessions, the first r of them with a
\* running worker and the others with a finished one. Each is the registry
\* after n WantBlock events with distinct session ids and n - r fetches that
\* ended with a block.
GcSessions == 0..(GcCap + GcExtra - 1)

InitGc ==
    /\ bitswap = TRUE
    /\ \E n \in 0..(GcCap + GcExtra), r \in 0..1 :
          /\ r <= n
          /\ bitswap_sessions =
                [c \in 0..(n - 1) |->
                    IF c < r THEN <<NewWorker>>
                    ELSE <<[st |-> "finished", cancel |-> FALSE, won |-> "Ok",
                            put_block |-> 1]>>]
    /\ destroy_tasks = EmptyBag
    /\ kad = FALSE
    /\ InitKadVars
    /\ InitOtherVars
    /\ handled = [src |-> "none", ev |-> "none"]

NextGc ==
    \/ \E ctx \in GcSessions : WorkerStep(ctx, 1)
    \/ \E t \in BagToSet(destroy_tasks) : DestroyTaskStep(t)
    \/ SessionCleanup

SpecGc == InitGc /\ [][NextGc]_vars

\* Registries SpecWorker starts from: at most MaxWorkers workers over the
\* sessions, every one of them inside its select!. Each is the registry after
\* as many WantBlock events.
WorkerRegistries ==
    {r \in UNION {[S -> {<<NewWorker>>, <<NewWorker, NewWorker>>}] :
                    S \in SUBSET Sessions} :
        SumOver(DOMAIN r, [c \in DOMAIN r |-> Len(r[c])]) <= MaxWorkers}

InitWorker ==
    /\ bitswap = TRUE
    /\ bitswap_sessions \in WorkerRegistries
    /\ destroy_tasks = EmptyBag
    /\ kad = FALSE
    /\ InitKadVars
    /\ InitOtherVars
    /\ handled = [src |-> "none", ev |-> "none"]

NextWorker ==
    \/ \E ctx \in Sessions, i \in 1..MaxWorkers : WorkerStep(ctx, i)
    \/ \E t \in BagToSet(destroy_tasks), i \in 1..MaxWorkers : HeldWorkerStep(t, i)
    \/ \E t \in BagToSet(destroy_tasks) : DestroyTaskStep(t)
    \/ \E ctx \in Sessions : DestroySession(ctx)
    \/ SessionCleanup

\* the select! of the worker has a ready branch (closer_r resolved) or is
\* over with put_block awaited: the runtime polls the task again
Resolved(w) == w.st = "storing" \/ (w.st = "running" /\ w.cancel)

\* a step of a worker task that the runtime has to poll
ResolvedStep ==
    \/ \E ctx \in Sessions, i \in 1..MaxWorkers :
          /\ ctx \in DOMAIN bitswap_sessions
          /\ i <= Len(bitswap_sessions[ctx])
          /\ Resolved(bitswap_sessions[ctx][i])
          /\ WorkerStep(ctx, i)
    \/ \E t \in BagToSet(destroy_tasks), i \in 1..MaxWorkers :
          /\ i <= Len(t.workers)
          /\ Resolved(t.workers[i])
          /\ HeldWorkerStep(t, i)

\* tokio runs every spawned task whose future is ready, and the cancel
\* signal and a put_block under way make the worker ready; a fetch that is
\* still waiting for a peer gets no fairness
SpecWorker == InitWorker /\ [][NextWorker]_vars /\ WF_vars(ResolvedStep)

InitKad ==
    /\ bitswap \in BOOLEAN
    /\ bitswap_sessions = <<>>
    /\ destroy_tasks = EmptyBag
    /\ kad \in BOOLEAN
    /\ InitKadVars
    /\ InitOtherVars
    /\ handled = [src |-> "none", ev |-> "none"]

NextKad ==
    \/ \E ok \in BOOLEAN : Bootstrap(ok)
    \/ \E ok \in BOOLEAN : Provide(ok)
    \/ \E ok \in BOOLEAN : DhtPut(ok)
    \/ \E peer \in Peers : GetClosestPeers(peer)
    \/ \E peer \in Peers, local_only, known \in BOOLEAN :
            FindPeer(peer, local_only, known)
    \/ GetProviders
    \/ DhtGet
    \/ BitswapFindProviders
    \/ \E ok \in BOOLEAN : BitswapProvide(ok)
    \/ \E id \in DOMAIN kad_queries :
            \E result \in KadResults(kad_queries[id]) :
                OutboundQueryProgressed(id, result)
    \/ \E t \in BagToSet(forward_tasks) : ForwardStep(t)

SpecKad == InitKad /\ [][NextKad]_vars

\* the peer-lookup list with the commands and events that touch it
NextLookup ==
    \/ \E peer \in Peers : FindPeerIdentity(peer)
    \/ \E peer \in Peers : GetClosestPeers(peer)
    \/ \E peer \in Peers, local_only, known \in BOOLEAN :
            FindPeer(peer, local_only, known)
    \/ \E id \in DOMAIN kad_queries :
            \E result \in KadResults(kad_queries[id]) :
                OutboundQueryProgressed(id, result)
    \/ \E peer \in Peers : IdentifyReceived(peer)

SpecLookup == InitKad /\ [][NextLookup]_vars

\* the engine reports the last step of its query id
QueryFinishes(id) ==
    /\ id \in DOMAIN kad_queries
    /\ \E result \in KadResults(kad_queries[id]) :
          result.final /\ OutboundQueryProgressed(id, result)

\* SpecLookup with a DHT engine that finishes every query it was given: the
\* swarm is polled by every iteration of the loop (task.rs:106) and a query
\* ends with a result or with its timeout
SpecLookupFair ==
    /\ InitKad
    /\ [][NextLookup]_vars
    /\ \A id \in 1..MaxQueries : WF_vars(QueryFinishes(id))

\* Every arm of handle_event, with the swarm event that brings the listener
\* map to the states the arms of the listener commands branch on.
NextFacade ==
    \/ \E ev \in ReplyCommands : Reply(ev)
    \/ \E ev \in {"WantList", "GetBitswapPeers"} : BitswapReply(ev)
    \/ \E addr \in Addrs, ok \in BOOLEAN : AddListeningAddress(addr, ok)
    \/ \E addr \in Addrs : RemoveListeningAddress(addr)
    \/ \E ok \in BOOLEAN : Bootstrap(ok)
    \/ \E peer \in Peers : GetClosestPeers(peer)
    \/ \E peer \in Peers : FindPeerIdentity(peer)
    \/ \E peer \in Peers, local_only, known \in BOOLEAN :
            FindPeer(peer, local_only, known)
    \/ GetProviders
    \/ \E ok \in BOOLEAN : Provide(ok)
    \/ DhtGet
    \/ \E ok \in BOOLEAN : DhtPut(ok)
    \/ GetBootstrappers
    \/ \E addr \in BootAddrs : AddBootstrapper(addr)
    \/ \E addr \in BootAddrs : RemoveBootstrapper(addr)
    \/ \E entries \in SUBSET BootAddrs : ClearBootstrappers(entries)
    \/ DefaultBootstrap
    \/ \E id \in 1..MaxListeners, address \in Addrs : NewListenAddr(id, address)

\* The task before any command, the peer book holding the identify info of
\* peer 1 or of no peer (the arm of FindPeerIdentity branches on it).
InitFacade ==
    /\ bitswap \in BOOLEAN
    /\ bitswap_sessions = <<>>
    /\ destroy_tasks = EmptyBag
    /\ kad \in BOOLEAN
    /\ kad_queries = <<>>
    /\ next_query = 0
    /\ kad_subscriptions = {}
    /\ provider_stream = {}
    /\ bitswap_provider_stream = {}
    /\ record_stream = {}
    /\ dht_peer_lookup = <<>>
    /\ chan = <<>>
    /\ forward_tasks = EmptyBag
    /\ peerbook \in {{}, {1}}
    /\ InitOtherVars
    /\ handled = [src |-> "none", ev |-> "none"]

SpecFacade == InitFacade /\ [][NextFacade]_vars

NotifyTasks == {[pc |-> p, server |-> sv] : p \in {"client", "server"}, sv \in BOOLEAN}

NextRepo ==
    \/ \E session \in {None} \cup {Some(s) : s \in Sessions} : WantBlock(session)
    \/ \E ctx \in Sessions, i \in 1..MaxWorkers : WorkerStep(ctx, i)
    \/ \E server \in BOOLEAN : NewBlock(server)
    \/ \E t \in NotifyTasks, ok \in BOOLEAN : NotifyTaskStep(t, ok)

SpecRepo == InitSession /\ [][NextRepo]_vars

\* any string of at most MaxPieces pieces is handed to the parser
InitPath ==
    /\ bitswap = FALSE
    /\ bitswap_sessions = <<>>
    /\ destroy_tasks = EmptyBag
    /\ kad = FALSE
    /\ InitKadVars
    /\ listening_addresses = <<>>
    /\ listeners = {}
    /\ listener_subscriptions = <<>>
    /\ swarm_listeners = <<>>
    /\ next_listener = 0
    /\ bootstraps = {}
    /\ kad_routing = {}
    /\ from_facade = 0
    /\ notify_tasks = EmptyBag
    /\ protocols = NoProtocols
    /\ codec = NoCodec
    /\ delay = FALSE
    /\ InitLoopVars
    /\ \E string \in Strings :
          path = [input |-> string, stage |-> "input", parsed |-> Err, shown |-> <<>>]
    /\ handled = [src |-> "none", ev |-> "none"]

NextPath ==
    \/ TryFrom
    \/ Display

SpecPath == InitPath /\ [][NextPath]_vars

\* a locator is parsed from a short string and pushed onto
InitPush ==
    /\ InitPath
    /\ Len(path.input) <= MaxPush + 1

NextPush ==
    \/ TryFrom
    \/ \E string \in PushStrings : PushStr(string)

SpecPush == InitPush /\ [][NextPush]_vars

\* any list of at most MaxProtocols versions
InitProtocol ==
    /\ bitswap = FALSE
    /\ bitswap_sessions = <<>>
    /\ destroy_tasks = EmptyBag
    /\ kad = FALSE
    /\ InitKadVars
    /\ listening_addresses = <<>>
    /\ listeners = {}
    /\ listener_subscriptions = <<>>
    /\ swarm_listeners = <<>>
    /\ next_listener = 0
    /\ bootstraps = {}
    /\ kad_routing = {}
    /\ from_facade = 0
    /\ notify_tasks = EmptyBag
    /\ codec = NoCodec
    /\ path = NoPath
    /\ delay = FALSE
    /\ InitLoopVars
    /\ \E list \in UNION {[1..n -> ProtocolId] : n \in 1..MaxProtocols} :
          protocols = [NoProtocols EXCEPT !.list = list]
    /\ handled = [src |-> "none", ev |-> "none"]

NextProtocol ==
    \/ Sort
    \/ SupportsHave

SpecProtocol == InitProtocol /\ [][NextProtocol]_vars

\* what a peer can have sent before the codec is used: nothing, a prefix that
\* is no varint, a prefix above the maximum, a frame whose body is not all there
Received(max) ==
    {<<>>,
     <<[len |-> -1, avail |-> 0, body |-> encode_as_proto_v0(NoMessage)]>>,
     <<[len |-> max + 1, avail |-> 0, body |-> encode_as_proto_v0(NoMessage)]>>,
     <<[len |-> max, avail |-> max - 1, body |-> encode_as_proto_v0(NoMessage)]>>}

\* a codec of any version with the small or the default max_transmit_size
\* (protocol.rs:118-124, 138-144), any message to send
InitCodec ==
    /\ bitswap = FALSE
    /\ bitswap_sessions = <<>>
    /\ destroy_tasks = EmptyBag
    /\ kad = FALSE
    /\ InitKadVars
    /\ listening_addresses = <<>>
    /\ listeners = {}
    /\ listener_subscriptions = <<>>
    /\ swarm_listeners = <<>>
    /\ next_listener = 0
    /\ bootstraps = {}
    /\ kad_routing = {}
    /\ from_facade = 0
    /\ notify_tasks = EmptyBag
    /\ protocols = NoProtocols
    /\ path = NoPath
    /\ delay = FALSE
    /\ InitLoopVars
    /\ \E protocol \in ProtocolId, max \in {MaxLen, MAX_BUF_SIZE},
          item \in Messages :
          \E src \in Received(max) :
             codec = [protocol |-> protocol, max |-> max, item |-> item,
                      dst |-> <<>>, src |-> src, result |-> NoResult,
                      negotiated |-> protocol]
    /\ handled = [src |-> "none", ev |-> "none"]

NextCodec ==
    \/ Encode
    \/ Transfer
    \/ Decode

SpecCodec == InitCodec /\ [][NextCodec]_vars

\* a stream before its upgrade: the configured max_transmit_size
\* (protocol.rs:80-87), what the peer sends, the message to send
InitStream ==
    /\ bitswap = FALSE
    /\ bitswap_sessions = <<>>
    /\ destroy_tasks = EmptyBag
    /\ kad = FALSE
    /\ InitKadVars
    /\ listening_addresses = <<>>
    /\ listeners = {}
    /\ listener_subscriptions = <<>>
    /\ swarm_listeners = <<>>
    /\ next_listener = 0
    /\ bootstraps = {}
    /\ kad_routing = {}
    /\ from_facade = 0
    /\ notify_tasks = EmptyBag
    /\ protocols = NoProtocols
    /\ path = NoPath
    /\ delay = FALSE
    /\ InitLoopVars
    /\ \E max \in {MaxLen, MAX_BUF_SIZE}, item \in Messages :
          \E src \in Received(max) :
             codec = [NoCodec EXCEPT !.max = max, !.item = item, !.src = src]
    /\ handled = [src |-> "none", ev |-> "none"]

NextStream ==
    \/ \E protocol_id \in ProtocolId : Upgrade(protocol_id)
    \/ Encode
    \/ Transfer
    \/ Decode

SpecStream == InitStream /\ [][NextStream]_vars

NextListen ==
    \/ \E addr \in Addrs, ok \in BOOLEAN : AddListeningAddress(addr, ok)
    \/ \E addr \in Addrs : RemoveListeningAddress(addr)
    \/ \E id \in 1..MaxListeners, addr \in Addrs : NewListenAddr(id, addr)
    \/ \E id \in 1..MaxListeners, addr \in Addrs : ExpiredListenAddr(id, addr)
    \/ \E id \in 1..MaxListeners : ListenerClosed(id)
    \/ \E id \in 1..MaxListeners : ListenerError(id)

SpecListen == InitFacade /\ [][NextListen]_vars

\* run on a task with no session, no query and no listener, started with
\* or without the startup delay
InitLoop ==
    /\ bitswap = FALSE
    /\ bitswap_sessions = <<>>
    /\ destroy_tasks = EmptyBag
    /\ kad = FALSE
    /\ InitKadVars
    /\ listening_addresses = <<>>
    /\ listeners = {}
    /\ listener_subscriptions = <<>>
    /\ swarm_listeners = <<>>
    /\ next_listener = 0
    /\ bootstraps = {}
    /\ kad_routing = {}
    /\ from_facade = 0
    /\ notify_tasks = EmptyBag
    /\ protocols = NoProtocols
    /\ codec = NoCodec
    /\ path = NoPath
    /\ delay \in BOOLEAN
    /\ InitLoopVars
    /\ handled = [src |-> "none", ev |-> "none"]

NextLoop ==
    \/ \E src \in Sources : \E ev \in Events(src) : Arrive(src, ev)
    \/ \E src \in Sources : Read(src)
    \/ Wake
    \/ \E timer \in Timers : Tick(timer)

SpecLoop == InitLoop /\ [][NextLoop]_vars

\* ------------------------------------------------------------------ claims

\* every worker of session s has finished
AllFinished(s) ==
    \A i \in 1..Len(bitswap_sessions[s]) : is_finished(bitswap_sessions[s][i])

\* the sessions the step removed from the registry
Removed == DOMAIN bitswap_sessions \ DOMAIN bitswap_sessions'

\* C2 as stated: a session whose workers have all finished is absent from the
\* registry after the next session_cleanup tick, however many sessions the
\* registry holds at that tick.
C2_AbsentAfterOneTick ==
    [][handled'.ev = "session_cleanup" =>
        \A s \in DOMAIN bitswap_sessions :
            AllFinished(s) => s \notin DOMAIN bitswap_sessions']_vars

\* C2 amended: a session whose workers have all finished is absent from the
\* registry after the next session_cleanup tick, unless that tick destroyed
\* GcCap other sessions.
C2_AbsentAfterOneTickUnlessCap ==
    [][handled'.ev = "session_cleanup" =>
        \A s \in DOMAIN bitswap_sessions :
            AllFinished(s) =>
                \/ s \notin DOMAIN bitswap_sessions'
                \/ Cardinality(Removed) = GcCap]_vars

\* C2 witness: a tick has just destroyed sessions, fewer than the cap
C2_Witness ==
    /\ handled.ev = "session_cleanup"
    /\ handled.to_remove # {}
    /\ Cardinality(handled.to_remove) < GcCap

\* C3: one session_cleanup tick destroys at most GcCap sessions; when more
\* sessions than that have only finished workers, exactly GcCap are destroyed
\* and the others stay in the registry, still eligible for a later tick.
C3_AtMostCapPerTick ==
    [][handled'.ev = "session_cleanup" =>
        LET E == {s \in DOMAIN bitswap_sessions : AllFinished(s)}
        IN /\ Cardinality(Removed) <= GcCap
           /\ Removed \subseteq E
           /\ Cardinality(E) > GcCap =>
                /\ Cardinality(Removed) = GcCap
                /\ \A s \in E \ Removed :
                      /\ s \in DOMAIN bitswap_sessions'
                      /\ \A i \in 1..Len(bitswap_sessions'[s]) :
                            is_finished(bitswap_sessions'[s][i])]_vars

\* C3 witness: a tick destroyed GcCap sessions and left one behind whose
\* workers have all finished
C3_Witness ==
    /\ handled.ev = "session_cleanup"
    /\ Cardinality(handled.to_remove) = GcCap
    /\ \E s \in DOMAIN bitswap_sessions : AllFinished(s)

\* C4: destroy_bs_session takes the session out of the registry in the step
\* that spawns the destroy task, so before that task can call stop_session;
\* each destroy spawns one task, and a task calls stop_session exactly once,
\* as its last act, whatever workers it was given.
C4_RemovedBeforeStopOnce ==
    [][/\ handled'.ev = "destroy_bs_session" /\ bitswap =>
            /\ handled'.ctx \notin DOMAIN bitswap_sessions'
            /\ BagCardinality(destroy_tasks') = BagCardinality(destroy_tasks) + 1
       /\ handled'.ev = "session_cleanup" =>
            /\ handled'.to_remove \cap DOMAIN bitswap_sessions' = {}
            /\ BagCardinality(destroy_tasks') =
                 BagCardinality(destroy_tasks) + Cardinality(handled'.to_remove)
       /\ handled'.ev = "destroy" =>
            /\ handled'.task.stops = (IF handled'.task.pc = "end" THEN 1 ELSE 0)
            /\ handled'.prev.stops = 0
       /\ \A t \in BagToSet(destroy_tasks') : t.stops = 0 /\ t.pc # "end"]_vars

\* C4 witness: a destroy task that was given two workers, one of which
\* accepted the cancel and one of which did not, has called stop_session
C4_Witness ==
    /\ handled.ev = "destroy"
    /\ handled.task.pc = "end"
    /\ handled.task.n = 2
    /\ handled.task.accepted = 1

\* C5: when a destroy task calls stop_session it has sent cancel to every
\* worker it was given and has awaited every worker that accepted it; a
\* worker that had finished is passed over without being awaited.
C5_CancelAllThenStop ==
    [][handled'.ev = "destroy" =>
        LET p == handled'.prev
            t == handled'.task
        IN /\ t.stops = 1 =>
                /\ t.sent = t.n
                /\ t.awaited = t.accepted
                /\ t.workers = <<>>
           /\ (p.pc = "cancel" /\ p.workers # <<>> /\ is_finished(Head(p.workers))) =>
                /\ t.pc = "cancel"
                /\ t.sent = p.sent + 1
                /\ t.accepted = p.accepted
                /\ t.awaited = p.awaited
                /\ t.workers = Tail(p.workers)
           /\ t.pc = "await" =>
                /\ Head(t.workers).cancel
                /\ t.accepted = t.awaited + 1]_vars

\* C5 witness: stop_session called by a task that cancelled and awaited one
\* worker and passed over a finished one
C5_Witness ==
    /\ handled.ev = "destroy"
    /\ handled.task.stops = 1
    /\ handled.task.n = 2
    /\ handled.task.sent = 2
    /\ handled.task.accepted = 1
    /\ handled.task.awaited = 1

\* the step handled a kad progress event
Progressed == handled'.src = "swarm" /\ handled'.ev = "OutboundQueryProgressed"

\* the continuation maps that hold query q
MapsOf(q) ==
    {m \in {"kad_subscriptions", "provider_stream", "bitswap_provider_stream",
            "record_stream"} :
        \/ m = "kad_subscriptions" /\ q \in kad_subscriptions
        \/ m = "provider_stream" /\ q \in provider_stream
        \/ m = "bitswap_provider_stream" /\ q \in bitswap_provider_stream
        \/ m = "record_stream" /\ q \in record_stream}

\* the sends of the handled event on the one-shot of query q
SentTo(h, q) ==
    {i \in 1..Len(h.sent) : h.sent[i].to = "kad_subscriptions" /\ h.sent[i].key = q}

\* C6: query exclusivity: no query id is a key of more than one of
\* kad_subscriptions, provider_stream, bitswap_provider_stream and
\* record_stream, and every key is an id the engine has handed out.
C6_QueryExclusivity ==
    \A q \in 1..MaxQueries :
        /\ Cardinality(MapsOf(q)) <= 1
        /\ MapsOf(q) # {} => q <= next_query

\* C6 witness: two queries are pending, one with a one-shot and one with a
\* provider stream
C6_Witness ==
    /\ kad_subscriptions # {}
    /\ provider_stream # {}
    /\ Cardinality(DOMAIN kad_queries) = 2

\* C7: the one-shot of query q leaves kad_subscriptions only in a step that
\* handles a progress event for q after the engine has dropped q, and that
\* step sends on it exactly once; a progress event for a query the engine
\* still holds sends on no one-shot and leaves kad_subscriptions as it is.
C7_OneShotOnlyWhenFinished ==
    [][/\ \A q \in kad_subscriptions \ kad_subscriptions' :
            /\ Progressed
            /\ handled'.id = q
            /\ ~handled'.live
            /\ q \notin DOMAIN kad_queries'
            /\ Cardinality(SentTo(handled', q)) = 1
       /\ (Progressed /\ handled'.live) =>
            /\ kad_subscriptions' = kad_subscriptions
            /\ handled'.sent = <<>>
            /\ handled'.id \in DOMAIN kad_queries']_vars

\* C7 witness: a progress event arrived for a query that has a one-shot and
\* that the engine still holds
C7_Witness ==
    /\ handled.src = "swarm"
    /\ handled.ev = "OutboundQueryProgressed"
    /\ handled.live
    /\ handled.id \in kad_subscriptions

\* C7 witness of the other side: a one-shot was resolved by a final event
C7_WitnessResolved ==
    /\ handled.src = "swarm"
    /\ handled.ev = "OutboundQueryProgressed"
    /\ ~handled.live
    /\ SentTo(handled, handled.id) # {}

\* C8 as stated: after the event that carries the last step of a query, the
\* query is in none of the three stream maps and its stream, if it had one,
\* is closed, whichever result variant the event carries.
C8_StreamClosedOnLastStep ==
    [][(Progressed /\ handled'.last) =>
        LET q == handled'.id
        IN /\ q \notin provider_stream'
           /\ q \notin bitswap_provider_stream'
           /\ q \notin record_stream'
           /\ q \in DOMAIN chan => chan'[q].closed]_vars

\* C9 as stated: after a final error event for query q (timeout, quorum
\* failure, not found) no continuation map contains q; a stream q had is
\* closed and a one-shot q had was sent an error.
C9_ErrorDestroysContinuation ==
    [][(/\ Progressed
        /\ ~handled'.live
        /\ handled'.variant \in {"BootstrapTimeout", "GetClosestPeersTimeout",
                                 "GetProvidersTimeout", "StartProvidingTimeout",
                                 "GetRecordNotFound", "GetRecordQuorumFailed",
                                 "GetRecordTimeout", "PutRecordQuorumFailed",
                                 "PutRecordTimeout"}) =>
        LET q == handled'.id
        IN /\ q \notin kad_subscriptions'
           /\ q \notin provider_stream' \cup bitswap_provider_stream'
           /\ q \notin record_stream'
           /\ q \in DOMAIN chan => chan'[q].closed
           /\ q \in kad_subscriptions =>
                \E i \in SentTo(handled', q) : handled'.sent[i].val # "Complete"]_vars

\* C10 as stated: a final closest-peers success for a peer with pending
\* lookups takes the peer's entry out of dht_peer_lookup and sends to every
\* responder of the entry: "Could not locate peer" when the peer is not among
\* the returned peers, a result when it is; no responder is dropped unanswered.
C10_LookupResolvedOnClosestPeers ==
    [][(/\ Progressed
        /\ handled'.variant = "GetClosestPeersOk"
        /\ ~handled'.live
        /\ handled'.key \in DOMAIN dht_peer_lookup) =>
        LET peer == handled'.key
            rets == dht_peer_lookup[peer]
            answers == SelectSeq(handled'.sent,
                                 LAMBDA m : m.to = "dht_peer_lookup" /\ m.key = peer)
        IN /\ peer \notin DOMAIN dht_peer_lookup'
           /\ handled'.dropped = <<>>
           /\ Len(answers) = Len(rets)
           /\ \A i \in 1..Len(rets) : answers[i].pos = rets[i]
           /\ ~handled'.found =>
                \A i \in 1..Len(answers) : answers[i].val = "CouldNotLocatePeer"]_vars

\* C1: whatever command handle_event has just handled, and whichever branch
\* of its arm was taken (success, failure, DHT or exchange disabled), the arm
\* sent on the command's responder exactly once; the one-shot a reply carries
\* is sent on at most once by the arm.
C1_ResponderExactlyOnce ==
    handled.src = "facade" =>
        /\ handled.ret = 1
        /\ handled.inner \in {0, 1}

\* C1 witness: the arm of RemoveListeningAddress answered on its failure
\* branch, the listener being gone from the swarm
C1_Witness ==
    /\ handled.src = "facade"
    /\ handled.ev = "RemoveListeningAddress"
    /\ handled.reply = "ListenerRemovalFailed"
    /\ handled.ret = 1

\* the sends of the handled event h to the lookup responders of peer p
LookupAnswers(h, p) ==
    SelectSeq(h.sent, LAMBDA m : m.to = "dht_peer_lookup" /\ m.key = p)

\* C11: an event that answers a lookup responder of peer p answers every
\* responder pending for p, in the order their FindPeerIdentity commands
\* pushed them, all with the same value, and removes the entry of p; a final
\* closest-peers timeout for p answers them all with the timeout error.
C11_LookupDrainsInOrder ==
    [][\A p \in Peers :
        LET rets == IF p \in DOMAIN dht_peer_lookup THEN dht_peer_lookup[p] ELSE <<>>
            answers == IF handled'.src = "swarm" /\ "sent" \in DOMAIN handled'
                       THEN LookupAnswers(handled', p) ELSE <<>>
        IN /\ \A i \in 1..Len(rets) : rets[i] = i
           /\ answers # <<>> =>
                /\ Len(answers) = Len(rets)
                /\ \A i \in 1..Len(rets) :
                      /\ answers[i].pos = rets[i]
                      /\ answers[i].val = answers[1].val
                /\ p \notin DOMAIN dht_peer_lookup'
           /\ (/\ Progressed
               /\ handled'.variant = "GetClosestPeersTimeout"
               /\ ~handled'.live
               /\ handled'.key = p
               /\ rets # <<>>) =>
                /\ Len(answers) = Len(rets)
                /\ \A i \in 1..Len(answers) : answers[i].val = "ClosestPeersTimeout"
                /\ p \notin DOMAIN dht_peer_lookup']_vars

\* C11 witness: a closest-peers timeout has answered two responders that were
\* pending for the same peer
C11_Witness ==
    /\ handled.src = "swarm"
    /\ handled.ev = "OutboundQueryProgressed"
    /\ handled.variant = "GetClosestPeersTimeout"
    /\ Len(LookupAnswers(handled, handled.key)) = 2

\* the items of sequence q as a set
Elems(q) == {q[i] : i \in 1..Len(q)}

\* the forwarding tasks of the state that send on the channel of query q
TasksOf(q) == {t \in BagToSet(forward_tasks) : t.id = q}

\* C12 as stated: every provider the DHT reports for a GetProviders query q
\* is handed to a forwarding task of q, every item such a task sends arrives
\* on the channel of q and on no other channel, whatever was handled in
\* between (the last step included), and the caller's stream yields each
\* provider received on the channel exactly once.
C12_ProvidersYieldedOnce ==
    [][/\ (Progressed /\ handled'.id \in provider_stream
             /\ handled'.reported # {}) =>
            LET q == handled'.id
                new == {t \in BagToSet(forward_tasks') : t.id = q} \ TasksOf(q)
            IN \E t \in new : Elems(t.items) = handled'.reported
                                /\ Len(t.items) = Cardinality(handled'.reported)
       /\ (handled'.ev = "forward" /\ chan[handled'.id].kind = "provider") =>
            LET q == handled'.id
            IN /\ Len(chan'[q].buf) = Len(chan[q].buf) + 1
               /\ \E t \in TasksOf(q) : chan'[q].buf = Append(chan[q].buf, Head(t.items))
               /\ \A r \in DOMAIN chan \ {q} : chan'[r] = chan[r]
       /\ \A q \in DOMAIN chan' :
            chan'[q].kind = "provider" =>
                LET out == ProviderStream(chan'[q].buf, {})
                IN /\ Elems(out) = Elems(chan'[q].buf)
                   /\ Cardinality(Elems(out)) = Len(out)]_vars

\* C13 as stated: a forwarding task sends on the channel of query q only when
\* no forwarding task spawned for an earlier progress event of q still holds
\* an item, so that the items of q arrive in the order the DHT emitted them.
C13_ItemsInEmissionOrder ==
    [][handled'.ev = "forward" =>
        \A t \in TasksOf(handled'.id) : t.at >= handled'.at]_vars

\* the inputs of one source that run has handled, in the order it handled them
HandledOf(src) ==
    SelectSeq(log, LAMBDA e : e.src = src)

\* C14: once run has read Exit it is over: the step that reads Exit ends the
\* loop without handling anything, every facade command the facade sent before
\* that Exit has been handled by then, and no later step handles, reads or
\* notifies anything
C14_ExitLeavesLoop ==
    [][/\ (pc = "select" /\ from_facade' = from_facade + 1 /\ cur'.ev = "Exit") =>
            /\ pc' = "done"
            /\ log' = log
            /\ \A k \in 1..(cur'.k - 1) :
                  \E i \in DOMAIN log : log[i].src = "facade" /\ log[i].k = k
       /\ pc = "done" =>
            /\ pc' = "done"
            /\ log' = log
            /\ cur' = cur
            /\ notified' = notified
            /\ from_facade' = from_facade
            /\ \A src \in Sources : Len(inbox'[src]) >= Len(inbox[src])]_vars

C14_Witness ==
    /\ pc = "done"
    /\ cur.k = 2
    /\ Len(HandledOf("facade")) = 1
    /\ inbox.facade # <<>>

\* C15: the startup notification has been fired exactly once as soon as the
\* first iteration is over, whichever input that iteration read, Exit
\* included, and never more than once
C15_NotifiedOnceWhateverFirst ==
    /\ notified <= 1
    /\ (log # <<>> \/ pc = "done") => notified = 1

\* C15: the startup notification is fired exactly once, at the end of the
\* first iteration that reaches the end of the loop body; an iteration that
\* reads Exit leaves the loop before that point, so a run whose first input
\* is Exit never fires it
C15_NotifiedOnceAfterFirstHandled ==
    /\ notified = (IF log # <<>> THEN 1 ELSE 0)
    /\ first_run <=> log # <<>>

C15_Witness ==
    /\ Len(log) >= 2
    /\ notified = 1
    /\ log[1].src = "timer"

\* C16: every input run has read is handled before the next one is read (at
\* most the one of the current iteration is in flight), and the inputs of
\* each source are handled in the order the source produced them, with and
\* without the startup delay
C16_OneInputPerIterationInOrder ==
    /\ (produced.swarm - Len(inbox.swarm)) + (produced.facade - Len(inbox.facade))
         + (produced.repo - Len(inbox.repo)) + ticks
       = Len(log) + (IF pc \in {"sleep", "done"} THEN 1 ELSE 0)
    /\ \A src \in Sources :
          \A i \in 1..Len(HandledOf(src)) : HandledOf(src)[i].k = i
    /\ pc \in {"sleep", "done"} => cur.k = Len(HandledOf(cur.src)) + 1

C16_Witness ==
    /\ delay
    /\ pc = "sleep"
    /\ cur.src = "facade"
    /\ Len(HandledOf("facade")) = 2

LifecycleEvents ==
    {"NewListenAddr", "ExpiredListenAddr", "ListenerClosed", "ListenerError"}

\* C17: a responder waiting in listener_subscriptions for listener L stays
\* there, untouched, until the first lifecycle event of L; that event sends
\* exactly one value on it and removes it, and a lifecycle event of a listener
\* with no responder waiting sends nothing
C17_ListenerResponderOnce ==
    [][\A L \in 1..MaxListeners :
          LET waiting == L \in DOMAIN listener_subscriptions
              event == /\ handled'.src = "swarm"
                       /\ handled'.ev \in LifecycleEvents
                       /\ handled'.id = L
          IN /\ (waiting /\ event) =>
                   /\ Len(handled'.sent) = 1
                   /\ handled'.sent[1].to = "listener_subscriptions"
                   /\ handled'.sent[1].key = L
                   /\ L \notin DOMAIN listener_subscriptions'
             /\ (~waiting /\ event) =>
                   /\ handled'.sent = <<>>
                   /\ L \notin DOMAIN listener_subscriptions'
             /\ (waiting /\ ~event) =>
                   /\ L \in DOMAIN listener_subscriptions'
                   /\ listener_subscriptions'[L] = listener_subscriptions[L]]_vars

\* the responder of a removal was fired by ListenerClosed, after an earlier
\* event had fired the responder of the same listener's AddListeningAddress
C17_Witness ==
    /\ handled.src = "swarm"
    /\ handled.ev = "ListenerClosed"
    /\ handled.sent # <<>>
    /\ handled.id \notin DOMAIN swarm_listeners
    /\ from_facade >= 2

\* the workers of session s in registry r, none when r has no such session
WorkersOf(r, s) == IF s \in DOMAIN r THEN r[s] ELSE <<>>

\* C18: with the exchange enabled WantBlock leaves a registry entry for its
\* session that holds the workers it held before (none when it was absent)
\* followed by one new worker, and leaves every other session and the destroy
\* tasks alone; WantBlock without a session works on session 0, the same
\* entry WantBlock(Some(0)) works on; session 0 is swept by a session_cleanup
\* tick and removed by destroy_bs_session like every other session
C18_WantBlockAddsOneWorker ==
    [][/\ (handled'.ev = "WantBlock" /\ bitswap) =>
            LET ctx == handled'.ctx
            IN /\ ctx = (IF handled'.session = None THEN 0
                         ELSE CHOOSE x \in handled'.session : TRUE)
               /\ DOMAIN bitswap_sessions' = DOMAIN bitswap_sessions \cup {ctx}
               /\ bitswap_sessions'[ctx] =
                     Append(WorkersOf(bitswap_sessions, ctx), NewWorker)
               /\ \A c \in DOMAIN bitswap_sessions \ {ctx} :
                     bitswap_sessions'[c] = bitswap_sessions[c]
               /\ destroy_tasks' = destroy_tasks
       /\ \A s \in DOMAIN bitswap_sessions :
            /\ (handled'.ev = "session_cleanup" /\ AllFinished(s)) =>
                  \/ /\ s \notin DOMAIN bitswap_sessions'
                     /\ s \in handled'.to_remove
                  \/ Cardinality(Removed) = GcCap
            /\ (handled'.ev = "destroy_bs_session" /\ handled'.ctx = s) =>
                  /\ s \notin DOMAIN bitswap_sessions'
                  /\ BagCardinality(destroy_tasks') =
                        BagCardinality(destroy_tasks) + 1]_vars

\* WantBlock without a session has just added a second worker to session 0
C18_Witness ==
    /\ bitswap
    /\ handled.ev = "WantBlock"
    /\ handled.session = None
    /\ 0 \in DOMAIN bitswap_sessions
    /\ Len(bitswap_sessions[0]) = 2

\* C19: handling NewBlock sends the not-providing error on the event's
\* responder exactly once, with the exchange enabled (a notification task is
\* spawned as well) and with it disabled (none is), and touches no session; no
\* step of a notification task, successful or failed, sends on a responder
C19_NewBlockNotProviding ==
    [][/\ handled'.ev = "NewBlock" =>
            /\ handled'.ret = 1
            /\ handled'.reply = "Err(not actively providing blocks yet)"
            /\ BagCardinality(notify_tasks') =
                  BagCardinality(notify_tasks) + (IF bitswap THEN 1 ELSE 0)
            /\ UNCHANGED sessVars
       /\ handled'.ev = "notify_new_blocks" =>
            /\ handled'.ret = 0
            /\ BagCardinality(notify_tasks') <= BagCardinality(notify_tasks)
            /\ UNCHANGED sessVars]_vars

\* NewBlock was answered while the notification task of an earlier NewBlock
\* was still waiting for the exchange
C19_Witness ==
    /\ bitswap
    /\ handled.ev = "NewBlock"
    /\ handled.ret = 1
    /\ BagCardinality(notify_tasks) = 2

\* the three changes the round trip may make to an accepted string: the
\* scheme is added to a string that starts with a content hash, "ipld" in the
\* scheme position becomes "ipfs", one trailing '/' is removed
WithScheme(string) == IF string[1] # "" THEN <<"", "ipfs">> \o string ELSE string
WithIpfs(string) == IF string[2] = "ipld" THEN [string EXCEPT ![2] = "ipfs"] ELSE string
WithoutTrailing(string) ==
    IF string[Len(string)] = "" THEN SubSeq(string, 1, Len(string) - 1) ELSE string
Canonical(string) == WithoutTrailing(WithIpfs(WithScheme(string)))

\* C20: for every accepted string the text of the parsed path is the string
\* with the scheme added, "ipld" replaced and one trailing '/' removed, and
\* that text has no "ipld" scheme and no trailing '/'
C20_PathRoundTrip ==
    path.stage = "shown" =>
        /\ path.shown = Canonical(path.input)
        /\ path.shown[2] # "ipld"
        /\ path.shown[Len(path.shown)] # ""

\* the string has two '/' in a row before its last character: an empty piece
\* that is neither the first nor the last one
HasDoubleSlash(string) == \E i \in 2..(Len(string) - 1) : string[i] = ""

\* the parser has answered
Answered == path.stage \in {"parsed", "rejected", "shown"}

\* C21: a string with two consecutive '/' other than one trailing '/' is
\* rejected, and an accepted string that does not end in '/' is accepted with
\* the same locator when one '/' is written after it
C21_DoubleSlashRejected ==
    Answered =>
        /\ HasDoubleSlash(path.input) => ~path.parsed.ok
        /\ (path.parsed.ok /\ path.input[Len(path.input)] # "") =>
              from_str(path.input \o <<"">>) = path.parsed

\* the pieces that are the text of a content hash, and of a peer id
CidTexts == {"Qm", "zb2", "bafy"}
PeerIdTexts == {"12D3"}

\* the tokens the root is read from: the first piece when it is not empty,
\* the first three otherwise
LeadingTokens(string) ==
    IF string[1] # "" THEN <<string[1]>> ELSE SubSeq(string, 1, Min(3, Len(string)))

\* C22: the root is decided by the leading tokens alone. A non-empty first
\* token that is no content hash is an error and one that is gives a
\* ContentHash root; after a leading '/', a missing key or a scheme other than
\* ipfs, ipld and ipns is an error, ipfs and ipld with a key that is no content
\* hash is an error and with one that is give a ContentHash root, ipns gives a
\* NameIdentity root when the key is a peer id and a DnsName root of that key
\* otherwise
C22_RootFromLeadingTokens ==
    Answered =>
        LET string == path.input
            lead == LeadingTokens(string)
            parsed == path.parsed
        IN /\ parsed.ok => parsed.root = from_str(lead).root
           /\ string[1] # "" =>
                 /\ string[1] \notin CidTexts => ~parsed.ok
                 /\ parsed.ok => parsed.root.kind = "Ipld"
           /\ string[1] = "" =>
                 /\ Len(string) < 3 => ~parsed.ok
                 /\ (Len(string) >= 2 /\ string[2] \notin {"ipfs", "ipld", "ipns"}) =>
                       ~parsed.ok
                 /\ (Len(string) >= 3 /\ string[2] \in {"ipfs", "ipld"}) =>
                       /\ string[3] \notin CidTexts => ~parsed.ok
                       /\ parsed.ok => parsed.root.kind = "Ipld"
                 /\ (Len(string) >= 3 /\ string[2] = "ipns" /\ parsed.ok) =>
                       parsed.root = (IF string[3] \in PeerIdTexts
                                      THEN [kind |-> "Ipns", key |-> "peer"]
                                      ELSE [kind |-> "Dns", key |-> string[3]])

\* a DNS name followed by two segments was accepted
C22_Witness ==
    /\ path.stage = "parsed"
    /\ path.input = <<"", "ipns", "foobar.com", "a", "a">>
    /\ path.parsed.root.kind = "Dns"
    /\ Len(path.parsed.path) = 2

\* the versions in the order the specification gives them
VersionOrder == <<"Legacy", "Bitswap100", "Bitswap110", "Bitswap120">>
Rank(p) == CHOOSE i \in 1..4 : VersionOrder[i] = p

\* how often p occurs in list
Count(list, p) == Cardinality({i \in 1..Len(list) : list[i] = p})

\* C23: the comparison of versions is irreflexive, transitive and total and
\* agrees with Legacy < v1.0.0 < v1.1.0 < v1.2.0, and a sorted list holds the
\* versions of the list it came from, each as often, in that order
C23_VersionsTotallyOrdered ==
    /\ \A a, b, c \in ProtocolId :
          /\ ~lt(a, a)
          /\ (lt(a, b) /\ lt(b, c)) => lt(a, c)
          /\ a # b => (lt(a, b) \/ lt(b, a))
          /\ lt(a, b) <=> Rank(a) < Rank(b)
    /\ protocols.is_sorted =>
          /\ Len(protocols.sorted) = Len(protocols.list)
          /\ \A p \in ProtocolId :
                Count(protocols.sorted, p) = Count(protocols.list, p)
          /\ \A i, j \in 1..Len(protocols.sorted) :
                i < j => Rank(protocols.sorted[i]) <= Rank(protocols.sorted[j])

\* the four versions given newest first have been sorted
C23_Witness ==
    /\ protocols.is_sorted
    /\ protocols.list = <<"Bitswap120", "Bitswap110", "Bitswap100", "Legacy">>
    /\ protocols.sorted = VersionOrder

\* C24: supports_have is true for v1.2.0 and false for Legacy, v1.0.0 and
\* v1.1.0
C24_HaveOnlyAt120 ==
    protocols.asked =>
        \A i \in 1..Len(protocols.list) :
            protocols.list[i] \in protocols.have <=> protocols.list[i] = "Bitswap120"

\* every version was asked and only one supports presence
C24_Witness ==
    /\ protocols.asked
    /\ {protocols.list[i] : i \in 1..Len(protocols.list)} = ProtocolId
    /\ protocols.have = {"Bitswap120"}

\* C25 as stated: the frame a successful encode appends, prefix and body, is
\* no longer than max_transmit_size; an encode of a longer body fails with
\* MaxTransmissionSize and appends nothing; a decode of a prefix above the
\* maximum fails with MaxTransmissionSize
C25_FrameWithinMax ==
    [][/\ handled'.ev = "encode" =>
            IF get_size(proto(codec.protocol, codec.item)) > codec.max
            THEN /\ codec'.result.kind = "MaxTransmissionSize"
                 /\ codec'.dst = codec.dst
            ELSE /\ codec'.result.kind = "Ok"
                 /\ ByteLen(codec'.dst) - ByteLen(codec.dst) <= codec.max
       /\ (handled'.ev = "decode" /\ Head(codec.src).len > codec.max) =>
            codec'.result.kind = "MaxTransmissionSize"]_vars

\* C25 amended: the body of the frame a successful encode appends is no
\* longer than max_transmit_size, the frame being longer than its body by
\* the bytes of the length prefix; an encode of a longer body fails with
\* MaxTransmissionSize and appends nothing; a decode of a prefix above the
\* maximum fails with MaxTransmissionSize
C25_BodyWithinMax ==
    [][/\ handled'.ev = "encode" =>
            IF get_size(proto(codec.protocol, codec.item)) > codec.max
            THEN /\ codec'.result.kind = "MaxTransmissionSize"
                 /\ codec'.dst = codec.dst
            ELSE /\ codec'.result.kind = "Ok"
                 /\ Len(codec'.dst) = Len(codec.dst) + 1
                 /\ LET frame == codec'.dst[Len(codec'.dst)]
                    IN /\ frame.len <= codec.max
                       /\ frame.avail = frame.len
                       /\ ByteLen(codec'.dst) - ByteLen(codec.dst)
                             = uvi_len(frame.len) + frame.len
       /\ (handled'.ev = "decode" /\ Head(codec.src).len > codec.max) =>
            codec'.result.kind = "MaxTransmissionSize"]_vars

\* a body of exactly max_transmit_size bytes has been written
C25_Witness ==
    /\ codec.result.call = "encode"
    /\ codec.result.kind = "Ok"
    /\ codec.max = MaxLen
    /\ codec.dst # <<>>
    /\ codec.dst[1].len = MaxLen

\* the codec has decoded a whole frame: the one its own version wrote
Decoded == codec.result.call = "decode" /\ codec.result.kind = "Ok(Some)"

\* a message the v0 schema can carry: plain wants and untyped blocks only
V0Message(item) ==
    /\ \A i \in 1..Len(item.wantlist) : item.wantlist[i].want_type = "Block"
    /\ \A i \in 1..Len(item.blocks) : ~item.blocks[i].typed
    /\ item.presences = <<>>
    /\ item.pending = 0

\* C26 as stated: decoding the frame a codec of version v wrote for m with a
\* codec of version v gives (m, v), for every message and every version
C26_RoundTripEveryVersion ==
    Decoded =>
        /\ codec.result.message = codec.item
        /\ codec.result.protocol = codec.protocol

\* C26 amended: decoding the frame a codec of version v wrote for m with a
\* codec of version v gives (m, v) when v is v1.1.0 or v1.2.0, and when v is
\* Legacy or v1.0.0 and m has only plain wants and untyped blocks; for any
\* other m Legacy and v1.0.0 give back v and the wants and block data of m
\* with every want plain, every block untyped, no presence hint and no
\* pending bytes
C26_RoundTripWithinSchema ==
    Decoded =>
        LET m == codec.item
            got == codec.result.message
        IN /\ codec.result.protocol = codec.protocol
           /\ (codec.protocol \in {"Bitswap110", "Bitswap120"} \/ V0Message(m)) =>
                 got = m
           /\ codec.protocol \in {"Legacy", "Bitswap100"} =>
                 /\ V0Message(got)
                 /\ Len(got.wantlist) = Len(m.wantlist)
                 /\ Len(got.blocks) = Len(m.blocks)
                 /\ \A i \in 1..Len(m.blocks) : got.blocks[i].data = m.blocks[i].data

\* a message with a want and two blocks came back whole over v1.0.0, and so
\* did one with a typed block and a presence hint over v1.1.0
C26_Witness ==
    /\ Decoded
    /\ codec.result.message = codec.item
    /\ \/ /\ codec.protocol = "Bitswap100"
          /\ Len(codec.item.blocks) = 2
          /\ codec.item.wantlist # <<>>
          /\ codec.max = MaxLen
       \/ /\ codec.protocol = "Bitswap110"
          /\ \E i \in 1..Len(codec.item.blocks) : codec.item.blocks[i].typed
          /\ codec.item.presences # <<>>

\* the facade commands that need the DHT
DhtCommands ==
    {"Bootstrap", "GetClosestPeers", "GetProviders", "Provide", "DhtGet", "DhtPut",
     "FindPeer", "FindPeerIdentity", "AddBootstrapper", "RemoveBootstrapper"}

\* the step handled a command of DhtCommands that had to go to the DHT: not
\* a FindPeer answered from local addresses, not a FindPeerIdentity answered
\* from the peer book
NeedsDht(h) ==
    /\ h.src = "facade"
    /\ h.ev \in DhtCommands
    /\ ~(h.ev = "FindPeer" /\ h.reply = "Left")
    /\ ~(h.ev = "FindPeerIdentity" /\ h.reply = "rx:Info")

\* C27: with no DHT configured, every command that needs the DHT answers its
\* caller with the protocol-disabled error and leaves every continuation map
\* as it was
C27_DisabledDhtReported ==
    [][(~kad /\ NeedsDht(handled')) =>
          /\ handled'.reply \in {"ProtocolDisabled", "rx:ProtocolDisabled"}
          /\ UNCHANGED <<kad_subscriptions, provider_stream,
                         bitswap_provider_stream, record_stream,
                         dht_peer_lookup>>]_vars

\* C28: the session GC never destroys a session that has an unfinished worker:
\* every session a session_cleanup tick removes had only finished workers at
\* that tick, and a session with an unfinished worker leaves the registry only
\* by a call of destroy_bs_session for it.
C28_GcSparesUnfinished ==
    [][/\ handled'.ev = "session_cleanup" =>
            /\ Removed = handled'.to_remove
            /\ \A s \in Removed : AllFinished(s)
       /\ \A s \in Removed :
            ~AllFinished(s) =>
                handled'.ev = "destroy_bs_session" /\ handled'.ctx = s]_vars

\* C28 witness: a tick has just destroyed a session while another session,
\* which holds an unfinished worker, stays registered
C28_Witness ==
    /\ handled.ev = "session_cleanup"
    /\ handled.to_remove # {}
    /\ \E s \in DOMAIN bitswap_sessions :
          \E i \in 1..Len(bitswap_sessions[s]) : ~is_finished(bitswap_sessions[s][i])

\* C29: a session_cleanup tick prunes the finished workers of every session in
\* the registry: after the tick no session that is still registered holds a
\* worker that had finished before the tick, however many sessions the tick
\* found empty.
C29_EverySessionPruned ==
    [][handled'.ev = "session_cleanup" =>
        \A s \in DOMAIN bitswap_sessions' :
            \A i \in 1..Len(bitswap_sessions'[s]) :
                ~is_finished(bitswap_sessions'[s][i])]_vars

\* the workers of the registry and of the destroy tasks
AllWorkers ==
    UNION {{bitswap_sessions[c][i] : i \in 1..Len(bitswap_sessions[c])} :
              c \in DOMAIN bitswap_sessions}
    \cup UNION {{t.workers[i] : i \in 1..Len(t.workers)} :
                  t \in BagToSet(destroy_tasks)}

\* C30: a fetch worker acts on exactly one branch of its select!: put_block is
\* called at most once, and only by a worker whose fetch completed with Ok; a
\* worker whose closer_r branch completed or whose fetch returned Err has
\* finished without a put_block; and a worker whose select! is decided
\* finishes.
C30_WorkerActsOnOneBranch ==
    /\ [](\A w \in AllWorkers :
            /\ w.put_block = (IF w.won = "Ok" THEN 1 ELSE 0)
            /\ w.won \in {"closer", "Err"} => is_finished(w)
            /\ w.won = "none" <=> w.st = "running"
            /\ w.st = "storing" => w.won = "Ok")
    /\ ((\E w \in AllWorkers : Resolved(w)) ~> (\A w \in AllWorkers : ~Resolved(w)))

\* C30 witness: of two workers a destroy task holds, one left its select! by
\* closer_r and has finished, the other fetched its block and called put_block
C30_Witness ==
    \E t \in BagToSet(destroy_tasks) :
        /\ \E i \in 1..Len(t.workers) :
              t.workers[i].won = "closer" /\ is_finished(t.workers[i])
        /\ \E i \in 1..Len(t.workers) :
              t.workers[i].won = "Ok" /\ t.workers[i].put_block = 1

\* C31: encode takes the schema from the version of the codec alone: the body
\* of the frame a successful encode appends is the v0 form of the message
\* under Legacy and v1.0.0 and its v1 form under v1.1.0 and v1.2.0, whatever
\* the message holds and whatever the size limit is.
C31_SchemaFromVersionAlone ==
    [][(handled'.ev = "encode" /\ codec'.result.kind = "Ok") =>
          LET body == codec'.dst[Len(codec'.dst)].body
          IN /\ codec.protocol \in {"Legacy", "Bitswap100"} =>
                  /\ body = encode_as_proto_v0(codec.item)
                  /\ body.payload = <<>>
                  /\ body.block_presences = <<>>
             /\ codec.protocol \in {"Bitswap110", "Bitswap120"} =>
                  /\ body = encode_as_proto_v1(codec.item)
                  /\ body.blocks = <<>>]_vars

\* C31 witness: a message with a typed block and a presence hint has been
\* written under v1.0.0
C31_Witness ==
    /\ handled.ev = "encode"
    /\ codec.result.kind = "Ok"
    /\ codec.protocol = "Bitswap100"
    /\ codec.item.presences # <<>>
    /\ \E i \in 1..Len(codec.item.blocks) : codec.item.blocks[i].typed
    /\ Len(codec.dst) = 1

\* the frame at the head of src has a readable prefix within the limit and
\* a body that is not all there
Incomplete ==
    /\ codec.src # <<>>
    /\ Head(codec.src).len \in 0..codec.max
    /\ Head(codec.src).avail < Head(codec.src).len

\* C32: the version of a stream's codec is the one the upgrade was called
\* with, no encode and no decode changes it whatever its outcome, every
\* message decode returns carries it, and decode of a frame whose body is not
\* all there returns Ok(None).
C32_VersionFixedAtUpgrade ==
    /\ [](codec.protocol = codec.negotiated)
    /\ [][/\ handled'.ev = "upgrade" => codec'.protocol \in ProtocolId
          /\ handled'.ev \in {"encode", "transfer", "decode"} =>
                /\ codec'.protocol = codec.protocol
                /\ codec'.negotiated = codec.negotiated
                /\ codec'.max = codec.max
          /\ handled'.ev = "decode" =>
                /\ codec'.result.kind = "Ok(Some)" =>
                      codec'.result.protocol = codec.negotiated
                /\ Incomplete =>
                      /\ codec'.result.kind = "Ok(None)"
                      /\ codec'.src = codec.src]_vars

\* C32 witness: on a stream upgraded to v1.0.0 a decode has returned a
\* message after an encode
C32_Witness ==
    /\ codec.negotiated = "Bitswap100"
    /\ codec.result.call = "decode"
    /\ codec.result.kind = "Ok(Some)"
    /\ codec.result.protocol = "Bitswap100"

\* C32 witness: a decode of an incomplete frame has returned Ok(None)
C32_WitnessIncomplete ==
    /\ codec.negotiated \in ProtocolId
    /\ handled.ev = "decode"
    /\ codec.result.kind = "Ok(None)"

\* C33: after an Identify Received event for peer P is handled,
\* dht_peer_lookup has no entry for P, every responder that was pending for P
\* has been sent the result built from the event's info and none was dropped
\* unanswered, and the entries of the other peers are as they were.
C33_IdentifyResolvesLookups ==
    [][handled'.ev = "IdentifyReceived" =>
          LET P == handled'.peer
              rets == IF P \in DOMAIN dht_peer_lookup THEN dht_peer_lookup[P]
                      ELSE <<>>
              answers == LookupAnswers(handled', P)
          IN /\ P \notin DOMAIN dht_peer_lookup'
             /\ P \in peerbook'
             /\ handled'.dropped = <<>>
             /\ Len(handled'.sent) = Len(rets)
             /\ Len(answers) = Len(rets)
             /\ \A i \in 1..Len(rets) :
                   answers[i].pos = rets[i] /\ answers[i].val = "Info"
             /\ DOMAIN dht_peer_lookup' = DOMAIN dht_peer_lookup \ {P}
             /\ \A Q \in DOMAIN dht_peer_lookup' :
                   dht_peer_lookup'[Q] = dht_peer_lookup[Q]]_vars

\* C33 witness: an Identify Received event has answered two responders of its
\* peer while a responder of another peer stays pending
C33_Witness ==
    /\ handled.ev = "IdentifyReceived"
    /\ Len(LookupAnswers(handled, handled.peer)) = 2
    /\ dht_peer_lookup # <<>>

\* C34: in every locator reached by a parse and any pushes after it, whether
\* they returned Ok or Err, each segment is a non-empty string (the pieces of
\* a split hold no '/').
C34_SegmentsNonEmpty ==
    path.parsed.ok =>
        \A i \in 1..Len(path.parsed.path) : path.parsed.path[i] \in Pieces \ {""}

\* C34 witness: a push has failed on a locator that holds segments
C34_Witness ==
    /\ handled.ev = "push_str"
    /\ ~handled.ok
    /\ Len(path.parsed.path) >= 2

\* C37: a push_str that fails because the pushed string has an empty piece
\* before its end leaves the segments of the locator as they were; a push_str
\* that succeeds appends the non-empty pieces of the string.
C37_FailedPushLeavesSegments ==
    [][handled'.ev = "push_str" =>
          IF handled'.ok
          THEN path'.parsed.path =
                  path.parsed.path \o SelectSeq(handled'.string, LAMBDA x : x # "")
          ELSE path'.parsed.path = path.parsed.path]_vars

\* C35: the stop_session(s) of a destroy task never runs while the registry
\* holds an unfinished worker for session s, a WantBlock for s handled
\* between the removal of s and the stop_session included.
C35_StopSessionSparesLiveWorker ==
    [][(handled'.ev = "destroy" /\ handled'.task.stops > handled'.prev.stops) =>
          LET s == handled'.ctx
          IN s \in DOMAIN bitswap_sessions => AllFinished(s)]_vars

\* C36: a RemoveListeningAddress that answers with an error, for an address
\* never listened on or for a listener the swarm refuses to remove, leaves
\* listening_addresses, listeners and listener_subscriptions as they were.
C36_FailedRemoveLeavesListeners ==
    [][(/\ handled'.src = "facade"
        /\ handled'.ev = "RemoveListeningAddress"
        /\ handled'.reply \in {"ListenerRemovalFailed", "UnknownListener"}) =>
          UNCHANGED <<listening_addresses, listeners, listener_subscriptions>>]_vars

\* C39: every listener id that listening_addresses points to is a member of
\* listeners, in every state reached by Add/RemoveListeningAddress commands
\* and NewListenAddr, ExpiredListenAddr, ListenerClosed and ListenerError
\* events of listeners created through AddListeningAddress.
C39_AddressesPointToListeners ==
    \A addr \in DOMAIN listening_addresses : listening_addresses[addr] \in listeners

\* C38: ClearBootstrappers empties the bootstrap set and answers with exactly
\* the addresses the set held before the command, with the DHT enabled or
\* disabled and whether or not the routing table knew each address.
C38_ClearReturnsWhatWasCleared ==
    [][(handled'.src = "facade" /\ handled'.ev = "ClearBootstrappers") =>
          /\ bootstraps' = {}
          /\ handled'.reply = bootstraps]_vars

\* C40: every responder FindPeerIdentity placed in dht_peer_lookup for a peer
\* not in the peer book is resolved or dropped in the end, given an engine
\* that finishes every query it was given: no peer keeps an entry for ever,
\* the DHT being disabled and no identify event arriving included.
C40_LookupNeverPendingForever ==
    \A peer \in Peers :
        (peer \in DOMAIN dht_peer_lookup) ~> (peer \notin DOMAIN dht_peer_lookup)

====
